---- MODULE Spec2Model ----
(***************************************************************************)
(* Model of mtr's remote execution engine (src/mtr/ssh.py):                *)
(* SSHClientWrapper.connect / close, exec_command_stream and               *)
(* run_interactive_shell with _setup_channel, _run_event_loop,             *)
(* _cleanup_resources and the SIGWINCH _resize_handler.                    *)
(*                                                                         *)
(* One thread of control runs the wrapper's methods; pc is its position.   *)
(* Library calls (paramiko, termios, tty, select, os) are the environment: *)
(* each call site draws its outcome (value returned or exception raised)   *)
(* from a small set.  Bytes are small integers, a chunk is a non-empty     *)
(* sequence of bytes, b"" is the empty sequence.                           *)
(*                                                                         *)
(* Spec is the wrapper built without credentials, through one executor     *)
(* call; SpecSession is connect / close alone, for every combination of    *)
(* key file and password.                                                  *)
(***************************************************************************)
EXTENDS Integers, Sequences, FiniteSets, TLC

\* ---------------------------------------------------------------- bounds
MaxIO       == 2      \* non-empty chunks read (channel and local input) in one call
MaxResize   == 1      \* resize signals handled in one call
MaxExit     == 1      \* largest remote exit status
MaxLines    == 2      \* lines the remote stream produces in one call

\* ------------------------------------------------------- program constants
DEFAULT_TERMINAL_COLS == 80
DEFAULT_TERMINAL_ROWS == 24
NONBLOCKING_TIMEOUT   == 0
EXIT_STATUS_TIMEOUT   == 5
EXIT_SENTINEL         == -1

\* ------------------------------------------------------------ input sets
\* what one read may deliver: a single byte, or two bytes (so that a transfer
\* can be partial); the two chunks differ, so order shows
Chunks    == {<<1>>, <<2, 3>>}
Lines     == {<<1>>, <<2>>}
ExitCodes == 0..MaxExit
LocalSizes == {<<100, 40>>}   \* what os.get_terminal_size() may report
LoopPcs   == {"select", "recv", "write", "flush", "read", "send"}
\* a constructor argument: None, the empty string, or a proper value
Credentials == {"None", "", "set"}

\* --------------------------------------------------------------- helpers
None == [kind |-> "none", code |-> 0, exc |-> "none", msg |-> ""]
Return(c) == [kind |-> "return", code |-> c, exc |-> "none", msg |-> ""]
Raise(e)  == [kind |-> "raise", code |-> 0, exc |-> e, msg |-> ""]
\* raise SSHError(m)
SSHError(m) == [kind |-> "raise", code |-> 0, exc |-> "SSHError", msg |-> m]

\* what a wait for the remote exit status can meet: the status arrives
\* (Reported), the bounded wait of EXIT_STATUS_TIMEOUT seconds passes without
\* it (Overdue), or the transport fails (WaitFailed)
NoEvent     == [kind |-> "none", code |-> 0]
Reported(c) == [kind |-> "status", code |-> c]
Overdue     == [kind |-> "overdue", code |-> 0]
WaitFailed  == [kind |-> "failed", code |-> 0]

Prefix(s, n) == SubSeq(s, 1, n)

\* a str is a sequence of tokens; an Optional[str] is Absent (None) or Some(s)
Absent  == [present |-> FALSE, s |-> <<>>]
Some(s) == [present |-> TRUE, s |-> s]
\* "if x:" on an Optional[str]: None and "" are false
TruthyStr(x) == x.present /\ x.s # <<>>

\* arguments _build_command may get: the command line cli.py joined (which can
\* be "" or one space, as after `mtr ""`), the server's remote_dir and pre_cmd
\* (None, "", a value; a pre_cmd of one space)
Commands == {<<>>, <<" ">>, <<"ls">>, <<"a", " ", "b">>}
Workdirs == {Absent, Some(<<>>), Some(<<"/a">>), Some(<<"/b", " ", "c">>)}
PreCmds  == {Absent, Some(<<>>), Some(<<"p">>), Some(<<" ">>)}

NoBuild == [command |-> <<>>, workdir |-> Absent, pre_cmd |-> Absent,
            parts |-> <<>>, out |-> <<>>]

RECURSIVE Concat(_)
Concat(chunks) ==
    IF chunks = <<>> THEN <<>> ELSE Head(chunks) \o Concat(Tail(chunks))

\* what a sink holds after a series of calls of which the i-th took oks[i] bytes
RECURSIVE AcceptedBytes(_, _)
AcceptedBytes(chunks, oks) ==
    IF chunks = <<>> \/ oks = <<>> THEN <<>>
    ELSE Prefix(Head(chunks), Head(oks)) \o AcceptedBytes(Tail(chunks), Tail(oks))

\* UpdateChecker: the clock moves in steps of TickHours up to MaxTicks steps,
\* and check() is called up to MaxChecks times
CHECK_INTERVAL_HOURS == 24
TickHours == 8
MaxTicks  == 6
MaxChecks == 3
\* self.current_version, and what get_latest_version() may give: None (0, any
\* failure of the fetch) or a version
CurrentVersion == 1
FetchOutcomes  == {0, 1, 2}
\* _save_cache: written; IOError inside the try (swallowed); mkdir of the
\* cache directory raising before the try
SaveOutcomes == {"ok", "IOError", "mkdir"}

\* the cache entry last_check_time: no entry, a string fromisoformat rejects,
\* or a time
NoTime     == [kind |-> "absent", t |-> 0]
BadTime    == [kind |-> "garbage", t |-> 0]
TimeAt(t)  == [kind |-> "time", t |-> t]
\* the cache file
NoCache      == [file |-> "missing", last |-> NoTime, latest |-> 0]
CorruptCache == [file |-> "corrupt", last |-> NoTime, latest |-> 0]
Cache(l, v)  == [file |-> "json", last |-> l, latest |-> v]
StartCaches  == {NoCache, CorruptCache, Cache(NoTime, 0), Cache(BadTime, 0),
                 Cache(TimeAt(0), 1), Cache(TimeAt(0 - CHECK_INTERVAL_HOURS), 2)}
\* no check() made yet
NoCheck == [found |-> NoCache, at |-> 0, fetched |-> FALSE, ret |-> "none"]

\* outcomes of os.get_terminal_size()
NoQuery      == [kind |-> "none", cols |-> 0, rows |-> 0]
QueryFailed  == [kind |-> "OSError", cols |-> 0, rows |-> 0]
Size(c, rws) == [kind |-> "size", cols |-> c, rows |-> rws]
SizeQueries  == {Size(d[1], d[2]) : d \in LocalSizes} \cup {QueryFailed}

VARIABLES
    \* Session (SSHClientWrapper)
    clientObj,      \* self.client is not None
    transport,      \* "none" | "active": the client's transport
    HAS_TTY,        \* module flag: termios/tty/signal importable
    key_filename,   \* self.key_filename
    password,       \* self.password
    connect_kwargs, \* credential keywords the last connect() gave client.connect
    called,         \* the process has made its executor call (cli.py makes one)
    mainThread,     \* the executor call was made on the main thread
    TERM,           \* os.environ.get("TERM"): Absent or Some(name)
    \* process-wide terminal state
    ttyMode,        \* attributes of local standard input: "cooked" | "raw"
    sigHandler,     \* installed SIGWINCH handler: "prev" | "resize"
    \* the running (or last) executor call
    op,             \* "none" | "interactive" | "stream"
    pc,             \* position of the thread of control
    channel,        \* channel of the call: "none" | "open" | "closed"
    ptyDims,        \* <<cols, rows>> requested for the pty, <<>> before
    sizeQuery,      \* what os.get_terminal_size() gave _setup_channel
    chanCalls,      \* get_pty and exec_command calls made on the channel, in call order
    old_tty_attrs,  \* "none" | "cooked" | "raw"
    old_handler,    \* "none" | "prev" | "resize"
    rawEntered,     \* tty.setraw succeeded in this call
    timeouts,       \* arguments of channel.settimeout, in call order
    r,              \* ready set select returned, {} once the iteration is through with it
    data,           \* chunk read and not yet written or sent, <<>> otherwise
    recvErrSeen,    \* some channel.recv of this call raised
    recvLog,        \* non-empty chunks returned by channel.recv
    writeCalls,     \* arguments of sys.stdout.buffer.write
    writeOk,        \* bytes accepted by each write call
    flushLog,       \* outcome of each sys.stdout.buffer.flush call
    stdoutBytes,    \* bytes accepted by sys.stdout.buffer
    flushedLen,     \* length of stdoutBytes at the last successful flush
    stdinLog,       \* non-empty chunks returned by os.read
    sendCalls,      \* arguments of channel.send
    chanAccepted,   \* bytes accepted by channel.send
    loopExit,       \* "none" | "remote_eof" | "local_eof" | "exception"
    loopResult,     \* outcome of _run_event_loop
    exitEvent,      \* what the wait for the remote exit status met
    cleanupCalls,   \* invocations of _cleanup_resources
    ttyRestores,    \* attempts of termios.tcsetattr in cleanup
    sigRestores,    \* attempts of signal.signal in cleanup
    chanCloses,     \* attempts of channel.close
    cleanupFailed,  \* cleanup steps that raised
    resizes,        \* resize signals handled
    resizeReqs,     \* <<width, height>> of each channel.resize_pty call
    streamLines,    \* lines the iteration of stdout has delivered
    yielded,        \* lines yielded by exec_command_stream
    result,         \* what the caller got: None, Return(code), Raise(exc)
    \* Command Composer
    built,          \* the last _build_command call: its arguments, parts and result
    \* cli(): one invocation of the command-line entry point
    cliPc,          \* position in cli(), "off" when the wrapper is driven directly
    opts,           \* the parsed options: init, command given, tty, dry_run, sync
    stdoutIsatty,   \* sys.stdout.isatty()
    richMissing,    \* "from rich.console import Console" raises ImportError
    config,         \* what ConfigLoader().load() gives
    is_interactive, \* cli()'s local is_interactive
    cliCalls,       \* calls cli() made on the syncer and on the Session, in order
    stderr,         \* what the process wrote to standard error, in order
    pending,        \* the exception on its way out of the try statement
    exitStatus,     \* how the process ended
    \* UpdateChecker
    now,            \* datetime.now(), in hours
    disabled,       \* MTR_DISABLE_UPDATE_CHECK is one of "1", "true", "yes"
    cache,          \* the cache file: missing, not JSON, or its entries
    checks,         \* calls of check() made
    fetchLog,       \* time of each get_latest_version() call, and whether the
                    \* cache was written after it
    lastCheck       \* the last check(): the cache it found, whether it fetched,
                    \* what it gave the caller

sessionVars  == <<clientObj, transport, HAS_TTY, key_filename, password, connect_kwargs>>
termVars     == <<ttyMode, sigHandler>>
armVars      == <<old_tty_attrs, old_handler, rawEntered>>
relayVars    == <<timeouts, r, data, recvErrSeen, recvLog, writeCalls, writeOk, flushLog,
                  stdoutBytes, flushedLen,
                  stdinLog, sendCalls, chanAccepted, loopExit>>
cleanupVars  == <<cleanupCalls, ttyRestores, sigRestores, chanCloses, cleanupFailed>>
sigVars      == <<resizes, resizeReqs>>
setupVars    == <<ptyDims, sizeQuery, chanCalls>>
envVars      == <<mainThread, TERM>>

sshVars == <<clientObj, transport, HAS_TTY, key_filename, password, connect_kwargs, called,
          mainThread, TERM, ttyMode, sigHandler, op, pc, channel,
          ptyDims, sizeQuery, chanCalls, old_tty_attrs, old_handler, rawEntered, timeouts, r, data,
          recvErrSeen, recvLog, writeCalls, writeOk, flushLog, stdoutBytes, flushedLen,
          stdinLog, sendCalls,
          chanAccepted, loopExit, loopResult, exitEvent, cleanupCalls, ttyRestores,
          sigRestores, chanCloses, cleanupFailed, resizes, resizeReqs, streamLines, yielded,
          result>>

buildVars == <<built>>

cliVars == <<cliPc, opts, stdoutIsatty, richMissing, config, is_interactive, cliCalls,
             stderr, pending, exitStatus>>

updVars == <<now, disabled, cache, checks, fetchLog, lastCheck>>

vars == <<sshVars, buildVars, cliVars, updVars>>

\* state of a call that has just been entered
FreshCall ==
    /\ channel' = "none"
    /\ ptyDims' = <<>>
    /\ sizeQuery' = NoQuery
    /\ chanCalls' = <<>>
    /\ old_tty_attrs' = "none"
    /\ old_handler' = "none"
    /\ rawEntered' = FALSE
    /\ timeouts' = <<>>
    /\ r' = {}
    /\ data' = <<>>
    /\ recvErrSeen' = FALSE
    /\ recvLog' = <<>>
    /\ writeCalls' = <<>>
    /\ writeOk' = <<>>
    /\ flushLog' = <<>>
    /\ stdoutBytes' = <<>>
    /\ flushedLen' = 0
    /\ stdinLog' = <<>>
    /\ sendCalls' = <<>>
    /\ chanAccepted' = <<>>
    /\ loopExit' = "none"
    /\ loopResult' = None
    /\ exitEvent' = NoEvent
    /\ cleanupCalls' = 0
    /\ ttyRestores' = 0
    /\ sigRestores' = 0
    /\ chanCloses' = 0
    /\ cleanupFailed' = {}
    /\ resizes' = 0
    /\ resizeReqs' = <<>>
    /\ streamLines' = <<>>
    /\ yielded' = <<>>

\* state after SSHClientWrapper(host, user): no client, no call made yet
Constructed ==
    /\ clientObj = FALSE
    /\ transport = "none"
    /\ HAS_TTY \in BOOLEAN
    /\ connect_kwargs = {}
    /\ called = FALSE
    /\ mainThread = TRUE
    /\ ttyMode = "cooked"
    /\ sigHandler = "prev"
    /\ op = "none"
    /\ pc = "idle"
    /\ channel = "none"
    /\ ptyDims = <<>>
    /\ sizeQuery = NoQuery
    /\ chanCalls = <<>>
    /\ old_tty_attrs = "none"
    /\ old_handler = "none"
    /\ rawEntered = FALSE
    /\ timeouts = <<>>
    /\ r = {}
    /\ data = <<>>
    /\ recvErrSeen = FALSE
    /\ recvLog = <<>>
    /\ writeCalls = <<>>
    /\ writeOk = <<>>
    /\ flushLog = <<>>
    /\ stdoutBytes = <<>>
    /\ flushedLen = 0
    /\ stdinLog = <<>>
    /\ sendCalls = <<>>
    /\ chanAccepted = <<>>
    /\ loopExit = "none"
    /\ loopResult = None
    /\ exitEvent = NoEvent
    /\ cleanupCalls = 0
    /\ ttyRestores = 0
    /\ sigRestores = 0
    /\ chanCloses = 0
    /\ cleanupFailed = {}
    /\ resizes = 0
    /\ resizeReqs = <<>>
    /\ streamLines = <<>>
    /\ yielded = <<>>
    /\ result = None

\* ------------------------------------------------------------ cli(): values
\* the exception on its way out of cli()'s try statement
NoPending     == [kind |-> "none", code |-> 0, exc |-> "none"]
SystemExit(c) == [kind |-> "SystemExit", code |-> c, exc |-> "SystemExit"]
Uncaught(e)   == [kind |-> "exception", code |-> 0, exc |-> e]

\* how the process ends: sys.exit(code) or return from cli() (code 0), or an
\* exception nobody caught, for which the interpreter prints a traceback and
\* gives status 1
Running   == [kind |-> "running", code |-> 0]
Exited(c) == [kind |-> "exit", code |-> c]
Crashed   == [kind |-> "traceback", code |-> 1]

\* options of one invocation, and what ConfigLoader().load() may give: a
\* ConfigError, or a server entry with or without host and user, with or
\* without remote_dir, and a sync engine
Options == [init : BOOLEAN, hasCommand : BOOLEAN, tty : BOOLEAN, dry_run : BOOLEAN,
            sync : BOOLEAN]
Engines == {"rsync", "sftp", "scp"}
ConfigFailed == [kind |-> "ConfigError", hostUser |-> FALSE, remote_dir |-> FALSE,
                 engine |-> "rsync"]
Configs == {ConfigFailed}
           \cup [kind : {"ok"}, hostUser : BOOLEAN, remote_dir : BOOLEAN, engine : Engines]

\* no UpdateChecker at work
UpdOff ==
    /\ now = 0
    /\ disabled = FALSE
    /\ cache = NoCache
    /\ checks = 0
    /\ fetchLog = <<>>
    /\ lastCheck = NoCheck

\* no invocation of cli(): the wrapper is driven directly
CliOff ==
    /\ cliPc = "off"
    /\ opts = [init |-> FALSE, hasCommand |-> FALSE, tty |-> FALSE, dry_run |-> FALSE,
               sync |-> FALSE]
    /\ stdoutIsatty = FALSE
    /\ richMissing = FALSE
    /\ config = ConfigFailed
    /\ is_interactive = FALSE
    /\ cliCalls = <<>>
    /\ stderr = <<>>
    /\ pending = NoPending
    /\ exitStatus = Running

\* the wrapper as cli.py builds it when the host has neither key nor password
Init ==
    /\ Constructed
    /\ key_filename = "None"
    /\ password = "None"
    /\ TERM = Absent
    /\ built = NoBuild
    /\ CliOff
    /\ UpdOff

\* ------------------------------------------------------- _build_command
\* " && ".join(parts)
RECURSIVE Join(_, _)
Join_Trailing(sep, parts) ==
    IF parts = <<>> THEN <<>>
    ELSE parts[1] \o sep \o Join(sep, Tail(parts))

Join(sep, parts) ==
    IF parts = <<>> THEN <<>>
    ELSE IF Len(parts) = 1 THEN parts[1]
    ELSE parts[1] \o sep \o Join(sep, Tail(parts))

\* parts = []; if workdir: parts.append(f"cd {workdir}");
\* if pre_cmd: parts.append(pre_cmd); parts.append(command)
Parts_PreFirst(command, workdir, pre_cmd) ==
    (IF TruthyStr(pre_cmd) THEN <<pre_cmd.s>> ELSE <<>>)
        \o (IF TruthyStr(workdir) THEN <<(<<"cd", " ">> \o workdir.s)>> ELSE <<>>)
        \o <<command>>

Parts(command, workdir, pre_cmd) ==
    (IF TruthyStr(workdir) THEN <<(<<"cd", " ">> \o workdir.s)>> ELSE <<>>)
        \o (IF TruthyStr(pre_cmd) THEN <<pre_cmd.s>> ELSE <<>>)
        \o <<command>>

\* a call self._build_command(command, workdir, pre_cmd); it reads nothing of
\* self and changes nothing
BuildCommand ==
    /\ \E command \in Commands, workdir \in Workdirs, pre_cmd \in PreCmds :
         built' = [command |-> command, workdir |-> workdir, pre_cmd |-> pre_cmd,
                   parts |-> Parts(command, workdir, pre_cmd),
                   out |-> Join(<<" ", "&&", " ">>, Parts(command, workdir, pre_cmd))]
    /\ UNCHANGED <<sshVars, cliVars, updVars>>

\* a Python condition "if x:" on an Optional[str]
Truthy(x) == x \notin {"None", ""}

\* connect(): the credential keywords added to connect_kwargs
AuthKwargs_Both(key, pw) ==
    (IF Truthy(key) THEN {"key_filename"} ELSE {})
        \cup (IF Truthy(pw) THEN {"password"} ELSE {})

AuthKwargs(key, pw) ==
    IF Truthy(key) THEN {"key_filename"}
    ELSE IF Truthy(pw) THEN {"password"}
    ELSE {}

\* what client.connect(timeout=10) may do: succeed, raise a paramiko.SSHException
\* (AuthenticationException is one), or raise socket.timeout when the handshake
\* does not complete in time
ConnectOutcomes == {"ok", "SSHException", "socket.timeout"}

\* try: self.client.connect(...) except paramiko.SSHException: raise SSHError(...)
ConnectResult(outcome) ==
    CASE outcome = "ok" -> Return(0)
      [] outcome = "SSHException" -> SSHError("Failed to connect")
      [] OTHER -> Raise(outcome)

\* connect(): self.client is assigned before the transport's connect is tried;
\* only paramiko.SSHException is translated to SSHError.
ConnectCall ==
    /\ clientObj' = TRUE
    /\ connect_kwargs' = AuthKwargs(key_filename, password)
    /\ \E outcome \in ConnectOutcomes :
         /\ transport' = IF outcome = "ok" THEN "active" ELSE "none"
         /\ result' = ConnectResult(outcome)
    /\ op' = "connect"
    /\ FreshCall

\* connect() called on the wrapper directly
Connect ==
    /\ pc = "idle"
    /\ ConnectCall
    /\ UNCHANGED <<HAS_TTY, key_filename, password, called, termVars, pc, buildVars, updVars, envVars, cliVars>>

\* close(): if self.client: self.client.close().  The call is inside no try:
\* when the client's close raises, close() raises, and how much of the
\* transport was released by then is the library's business.
CloseCall ==
    /\ IF clientObj
       THEN \/ transport' = "none" /\ result' = Return(0)
            \/ \E left \in {transport, "none"} :
                 transport' = left /\ result' = Raise("Exception")
       ELSE transport' = transport /\ result' = Return(0)
    /\ op' = "close"
    /\ FreshCall
    /\ UNCHANGED <<clientObj, connect_kwargs>>

\* close() called on the wrapper directly
Close ==
    /\ pc = "idle"
    /\ CloseCall
    /\ UNCHANGED <<HAS_TTY, key_filename, password, called,
                   termVars, pc, buildVars, updVars, envVars, cliVars>>

\* an exception leaves the running method without passing any handler
Propagate(e) ==
    /\ pc' = "idle"
    /\ result' = Raise(e)

\* raise SSHError(m) where no handler encloses it
RaiseSSHError(m) ==
    /\ pc' = "idle"
    /\ result' = SSHError(m)

\* "if not self.client": the guard both executors start with
NotConnected_Never == FALSE

NotConnected == ~clientObj

\* ------------------------------------------------- run_interactive_shell
\* the message of the entry check that stops the call, "" when none does:
\* not self.client, not HAS_TTY, not on the main thread, in source order
EntryError_ThreadUnchecked(onMain) ==
    IF NotConnected THEN "Client not connected"
    ELSE IF ~HAS_TTY THEN "Interactive mode not supported"
    ELSE ""

EntryError(onMain) ==
    IF NotConnected THEN "Client not connected"
    ELSE IF ~HAS_TTY THEN "Interactive mode not supported"
    ELSE IF ~onMain THEN "must run in main thread"
    ELSE ""

\* entry checks of run_interactive_shell; the thread is the caller's
RunInteractiveShell ==
    /\ pc = "idle"
    /\ ~called
    /\ called' = TRUE
    /\ op' = "interactive"
    /\ FreshCall
    /\ \E onMain \in BOOLEAN :
         /\ mainThread' = onMain
         /\ IF EntryError(onMain) # ""
            THEN RaiseSSHError(EntryError(onMain))
            ELSE pc' = "open_session" /\ result' = None
    /\ UNCHANGED <<sessionVars, buildVars, updVars, TERM, cliVars, termVars>>

\* _setup_channel: get_transport() and transport.open_session()
OpenSession ==
    /\ pc = "open_session"
    /\ IF transport = "none"
       THEN RaiseSSHError("Transport not active") /\ UNCHANGED channel
       ELSE \E ok \in BOOLEAN :
              IF ok THEN channel' = "open" /\ pc' = "get_pty" /\ UNCHANGED result
                    ELSE Propagate("SSHException") /\ UNCHANGED channel
    /\ UNCHANGED <<sessionVars, buildVars, updVars, envVars, cliVars, called, termVars, op, setupVars, armVars, relayVars,
                   loopResult, exitEvent, cleanupVars, sigVars, streamLines, yielded>>

\* try: cols, rows = os.get_terminal_size()
\* except OSError: cols, rows = DEFAULT_TERMINAL_COLS, DEFAULT_TERMINAL_ROWS
PtySize_AlwaysDefault(q) == <<DEFAULT_TERMINAL_COLS, DEFAULT_TERMINAL_ROWS>>

PtySize(q) ==
    IF q.kind = "size" THEN <<q.cols, q.rows>>
    ELSE <<DEFAULT_TERMINAL_COLS, DEFAULT_TERMINAL_ROWS>>

\* term = os.environ.get("TERM", "vt100"): the default stands in for a
\* variable that is not set, a variable set to "" is taken as it is
TermName(env) == IF env.present THEN env.s ELSE <<"vt100">>

\* channel.get_pty(term=term, width=cols, height=rows)
PtyRequest(env, q) ==
    [call |-> "get_pty", term |-> TermName(env),
     width |-> PtySize(q)[1], height |-> PtySize(q)[2]]

\* channel.exec_command(full_command)
Dispatch == [call |-> "exec_command", term |-> <<>>, width |-> 0, height |-> 0]

\* _setup_channel: os.get_terminal_size() with fallback, channel.get_pty()
GetPty ==
    /\ pc = "get_pty"
    /\ \E q \in SizeQueries, ok \in BOOLEAN :
         /\ sizeQuery' = q
         /\ chanCalls' = Append(chanCalls, PtyRequest(TERM, q))
         /\ IF ok THEN ptyDims' = PtySize(q) /\ pc' = "exec_command" /\ UNCHANGED result
                  ELSE Propagate("SSHException") /\ UNCHANGED ptyDims
    /\ UNCHANGED <<sessionVars, buildVars, updVars, envVars, cliVars, called, termVars, op, channel, armVars, relayVars,
                   loopResult, exitEvent, cleanupVars, sigVars, streamLines, yielded>>

\* _setup_channel: channel.exec_command(full_command)
ExecCommand ==
    /\ pc = "exec_command"
    /\ chanCalls' = Append(chanCalls, Dispatch)
    /\ \E ok \in BOOLEAN :
         IF ok THEN pc' = "tcgetattr" /\ UNCHANGED result
               ELSE Propagate("SSHException")
    /\ UNCHANGED <<sessionVars, buildVars, updVars, envVars, cliVars, called, termVars, op, channel, ptyDims, sizeQuery,
                   armVars, relayVars,
                   loopResult, exitEvent, cleanupVars, sigVars, streamLines, yielded>>

\* old_tty_attrs = termios.tcgetattr(sys.stdin)
CapturedAttrs_AfterRaw(mode) == "raw"

CapturedAttrs(mode) == mode

TcGetAttr ==
    /\ pc = "tcgetattr"
    /\ \E ok \in BOOLEAN :
         IF ok THEN old_tty_attrs' = CapturedAttrs(ttyMode) /\ pc' = "install_handler" /\ UNCHANGED result
               ELSE Propagate("termios.error") /\ UNCHANGED old_tty_attrs
    /\ UNCHANGED <<sessionVars, buildVars, updVars, envVars, cliVars, called, termVars, op, channel, setupVars, old_handler, rawEntered,
                   relayVars, loopResult, exitEvent, cleanupVars, sigVars, streamLines, yielded>>

\* old_handler = signal.signal(signal.SIGWINCH, _resize_handler)
InstallHandler ==
    /\ pc = "install_handler"
    /\ old_handler' = sigHandler
    /\ sigHandler' = "resize"
    /\ pc' = "setraw"
    /\ UNCHANGED <<sessionVars, buildVars, updVars, envVars, cliVars, called, ttyMode, op, channel, setupVars, old_tty_attrs, rawEntered,
                   relayVars, loopResult, exitEvent, cleanupVars, sigVars, streamLines, yielded, result>>

\* tty.setraw(sys.stdin.fileno()); the try block starts after it
SetRaw ==
    /\ pc = "setraw"
    /\ \E ok \in BOOLEAN :
         IF ok THEN ttyMode' = "raw" /\ rawEntered' = TRUE /\ pc' = "settimeout0"
                    /\ UNCHANGED result
               ELSE Propagate("termios.error") /\ UNCHANGED <<ttyMode, rawEntered>>
    /\ UNCHANGED <<sessionVars, buildVars, updVars, envVars, cliVars, called, sigHandler, op, channel, setupVars, old_tty_attrs,
                   old_handler, relayVars, loopResult, exitEvent, cleanupVars, sigVars, streamLines, yielded>>

\* ------------------------------------------------------- _run_event_loop
\* try: exit_code = self._run_event_loop(channel); return exit_code
\* finally: self._cleanup_resources(channel, old_tty_attrs, old_handler)
\* control leaves the try block with the outcome of _run_event_loop and the
\* finally clause invokes _cleanup_resources
LeaveTry_NoFinally(outcome) ==
    /\ loopResult' = outcome
    /\ IF outcome.kind = "raise"
       THEN pc' = "idle" /\ result' = outcome /\ UNCHANGED cleanupCalls
       ELSE pc' = "cleanup_tty" /\ cleanupCalls' = cleanupCalls + 1 /\ UNCHANGED result

LeaveTry(outcome) ==
    /\ loopResult' = outcome
    /\ cleanupCalls' = cleanupCalls + 1
    /\ pc' = "cleanup_tty"
    /\ UNCHANGED result

\* where an iteration goes after select: channel first, then stdin
AfterSelect_StdinFirst(ready) ==
    IF "stdin" \in ready THEN "read"
    ELSE IF "channel" \in ready THEN "recv" ELSE "select"

AfterSelect(ready) ==
    IF "channel" \in ready THEN "recv"
    ELSE IF "stdin" \in ready THEN "read" ELSE "select"

\* where an iteration goes once the channel branch is done
AfterChannel(ready) ==
    IF "stdin" \in ready THEN "read" ELSE "select"

\* what is left to serve of the ready set once the channel branch is done
StdinOnly(ready) == ready \cap {"stdin"}

\* a write that returned is followed by sys.stdout.buffer.flush()
AfterWriteOk_NoFlush(ready) == AfterChannel(ready)

AfterWriteOk(ready) == "flush"

\* break: control leaves `while True` and goes on at the exit-status wait
AfterBreak_StaysInLoop == "select"

AfterBreak == "settimeout5"

\* if bytes_received == 0: break   (before the write)
RecvEof_WriteFirst ==
    /\ loopExit' = "remote_eof"
    /\ data' = <<>>
    /\ pc' = "write"
    /\ UNCHANGED <<recvErrSeen, recvLog, r>>

RecvEof ==
    /\ loopExit' = "remote_eof"
    /\ data' = <<>>
    /\ r' = {}
    /\ pc' = AfterBreak
    /\ UNCHANGED recvLog

\* except socket.error / except Exception around channel.recv: the exception
\* is logged, nothing is written, the iteration goes on with the stdin branch
RecvError_AsEof ==
    /\ recvErrSeen' = TRUE
    /\ r' = {}
    /\ pc' = "settimeout5"
    /\ UNCHANGED <<data, recvLog, loopExit>>

RecvError ==
    /\ recvErrSeen' = TRUE
    /\ pc' = AfterChannel(r)
    /\ r' = StdinOnly(r)
    /\ UNCHANGED <<data, recvLog, loopExit>>

\* except Exception around os.read and channel.send: an exception of the
\* read is logged and the loop goes on with the next readiness wait
ReadError_Breaks ==
    /\ pc' = "settimeout5"
    /\ r' = {}
    /\ UNCHANGED <<data, stdinLog, loopExit>>

ReadError ==
    /\ pc' = "select"
    /\ r' = {}
    /\ UNCHANGED <<data, stdinLog, loopExit>>

\* if bytes_sent == 0: break   (before the send)
StdinEof_SendFirst ==
    /\ loopExit' = "local_eof"
    /\ data' = <<>>
    /\ r' = {}
    /\ pc' = "send"
    /\ UNCHANGED stdinLog

StdinEof ==
    /\ loopExit' = "local_eof"
    /\ data' = <<>>
    /\ r' = {}
    /\ pc' = AfterBreak
    /\ UNCHANGED stdinLog

\* channel.settimeout(0.0)
SetNonBlocking ==
    /\ pc = "settimeout0"
    /\ timeouts' = Append(timeouts, NONBLOCKING_TIMEOUT)
    /\ pc' = "select"
    /\ UNCHANGED <<sessionVars, buildVars, updVars, envVars, cliVars, called, termVars, op, channel, setupVars, armVars, r, data,
                   recvErrSeen, recvLog, writeCalls, writeOk, flushLog, stdoutBytes, flushedLen,
                   stdinLog, sendCalls, chanAccepted, loopExit, loopResult, exitEvent,
                   cleanupVars, sigVars, streamLines, yielded, result>>

\* r, w, x = select.select([channel, sys.stdin], [], []): not inside any try
\* of the loop, so an exception of select leaves _run_event_loop
Select ==
    /\ pc = "select"
    /\ \/ \E ready \in SUBSET {"channel", "stdin"} :
            /\ r' = ready
            /\ pc' = AfterSelect(ready)
            /\ UNCHANGED <<loopExit, loopResult, exitEvent, cleanupCalls, result>>
       \/ /\ loopExit' = "exception"
          /\ LeaveTry(Raise("OSError"))
          /\ UNCHANGED <<r, exitEvent>>
    /\ UNCHANGED <<sessionVars, buildVars, updVars, envVars, cliVars, called, termVars, op, channel, setupVars, armVars, timeouts,
                   data, recvErrSeen, recvLog, writeCalls, writeOk, flushLog, stdoutBytes,
                   flushedLen, stdinLog, sendCalls, chanAccepted, ttyRestores,
                   sigRestores, chanCloses, cleanupFailed, sigVars, streamLines, yielded>>

\* data = channel.recv(BUFFER_SIZE): a chunk, b"" (EOF, break), or an exception
\* (socket.error or any other Exception), which is logged and swallowed
ChannelRecv ==
    /\ pc = "recv"
    /\ \/ \E d \in Chunks :
            /\ Len(recvLog) + Len(stdinLog) < MaxIO
            /\ recvLog' = Append(recvLog, d)
            /\ data' = d
            /\ pc' = "write"
            /\ UNCHANGED <<r, loopExit, recvErrSeen>>
       \/ RecvEof /\ UNCHANGED recvErrSeen
       \/ \E e \in {"socket.error", "Exception"} : RecvError
    /\ UNCHANGED <<sessionVars, buildVars, updVars, envVars, cliVars, called, termVars, op, channel, setupVars, armVars, timeouts,
                   writeCalls, writeOk, flushLog, stdoutBytes, flushedLen, stdinLog,
                   sendCalls, chanAccepted, loopResult, exitEvent, cleanupVars, sigVars, streamLines, yielded,
                   result>>

\* sys.stdout.buffer.write(data): all of data is accepted, or the write raises
\* after accepting k < len(data) bytes; the exception is swallowed and the
\* flush skipped
StdoutWrite ==
    /\ pc = "write"
    /\ writeCalls' = Append(writeCalls, data)
    /\ \/ /\ stdoutBytes' = stdoutBytes \o data
          /\ writeOk' = Append(writeOk, Len(data))
          /\ pc' = AfterWriteOk(r)
          /\ r' = IF AfterWriteOk(r) = "flush" THEN r ELSE StdinOnly(r)
       \/ \E k \in 0..(Len(data) - 1) :
            /\ stdoutBytes' = stdoutBytes \o Prefix(data, k)
            /\ writeOk' = Append(writeOk, k)
            /\ pc' = AfterChannel(r)
            /\ r' = StdinOnly(r)
    /\ data' = <<>>
    /\ UNCHANGED <<sessionVars, buildVars, updVars, envVars, cliVars, called, termVars, op, channel, setupVars, armVars, timeouts,
                   recvErrSeen, recvLog, flushLog, flushedLen, stdinLog, sendCalls,
                   chanAccepted, loopExit, loopResult, exitEvent, cleanupVars, sigVars, streamLines, yielded,
                   result>>

\* sys.stdout.buffer.flush(): an exception is swallowed
StdoutFlush ==
    /\ pc = "flush"
    /\ \E ok \in BOOLEAN :
         /\ flushedLen' = IF ok THEN Len(stdoutBytes) ELSE flushedLen
         /\ flushLog' = Append(flushLog, ok)
    /\ pc' = AfterChannel(r)
    /\ r' = StdinOnly(r)
    /\ UNCHANGED <<sessionVars, buildVars, updVars, envVars, cliVars, called, termVars, op, channel, setupVars, armVars, timeouts,
                   data, recvErrSeen, recvLog, writeCalls, writeOk, stdoutBytes, stdinLog,
                   sendCalls, chanAccepted, loopExit, loopResult, exitEvent, cleanupVars, sigVars,
                   streamLines, yielded, result>>

\* data = os.read(sys.stdin.fileno(), BUFFER_SIZE): a chunk, b"" (EOF, break),
\* or an exception, which is logged and swallowed
StdinRead ==
    /\ pc = "read"
    /\ \/ \E d \in Chunks :
            /\ Len(recvLog) + Len(stdinLog) < MaxIO
            /\ stdinLog' = Append(stdinLog, d)
            /\ data' = d
            /\ r' = {}
            /\ pc' = "send"
            /\ UNCHANGED loopExit
       \/ StdinEof
       \/ ReadError
    /\ UNCHANGED <<sessionVars, buildVars, updVars, envVars, cliVars, called, termVars, op, channel, setupVars, armVars, timeouts,
                   recvErrSeen, recvLog, writeCalls, writeOk, flushLog, stdoutBytes, flushedLen,
                   sendCalls, chanAccepted, loopResult, exitEvent, cleanupVars, sigVars, streamLines, yielded,
                   result>>

\* channel.send(data) on the non-blocking channel: accepts n <= len(data) bytes
\* and returns n (the return value is dropped), or raises (would-block /
\* socket.timeout), which is swallowed
ChannelSend ==
    /\ pc = "send"
    /\ sendCalls' = Append(sendCalls, data)
    /\ \/ \E n \in 0..Len(data) :
            chanAccepted' = chanAccepted \o Prefix(data, n)
       \/ UNCHANGED chanAccepted
    /\ data' = <<>>
    /\ pc' = "select"
    /\ UNCHANGED <<sessionVars, buildVars, updVars, envVars, cliVars, called, termVars, op, channel, setupVars, armVars, timeouts,
                   r, recvErrSeen, recvLog, writeCalls, writeOk, flushLog, stdoutBytes,
                   flushedLen, stdinLog, loopExit, loopResult, exitEvent, cleanupVars, sigVars,
                   streamLines, yielded, result>>

\* channel.settimeout(5.0) after the loop
SetBounded_Omitted ==
    /\ pc = "settimeout5"
    /\ timeouts' = timeouts
    /\ pc' = "recv_exit"
    /\ UNCHANGED <<sessionVars, buildVars, updVars, envVars, cliVars, called, termVars, op, channel, setupVars, armVars, r, data,
                   recvErrSeen, recvLog, writeCalls, writeOk, flushLog, stdoutBytes, flushedLen,
                   stdinLog, sendCalls, chanAccepted, loopExit, loopResult, exitEvent,
                   cleanupVars, sigVars, streamLines, yielded, result>>

SetBounded ==
    /\ pc = "settimeout5"
    /\ timeouts' = Append(timeouts, EXIT_STATUS_TIMEOUT)
    /\ pc' = "recv_exit"
    /\ UNCHANGED <<sessionVars, buildVars, updVars, envVars, cliVars, called, termVars, op, channel, setupVars, armVars, r, data,
                   recvErrSeen, recvLog, writeCalls, writeOk, flushLog, stdoutBytes, flushedLen,
                   stdinLog, sendCalls, chanAccepted, loopExit, loopResult, exitEvent,
                   cleanupVars, sigVars, streamLines, yielded, result>>

\* try: exit_code = channel.recv_exit_status(); return exit_code
\* except socket.timeout: return -1
\* with the 5 s timeout set, an overdue status makes the call raise
\* socket.timeout; any other exception is not handled here
ExitStatusResult_NoCatch(event) ==
    CASE event.kind = "status" -> Return(event.code)
      [] event.kind = "overdue" -> Raise("socket.timeout")
      [] OTHER -> Raise("SSHException")

ExitStatusResult(event) ==
    CASE event.kind = "status" -> Return(event.code)
      [] event.kind = "overdue" -> Return(EXIT_SENTINEL)
      [] OTHER -> Raise("SSHException")

\* exit_code = channel.recv_exit_status(): the status, socket.timeout (-1 is
\* returned), or another exception, which leaves _run_event_loop
RecvExitStatus ==
    /\ pc = "recv_exit"
    /\ \E event \in {Reported(code) : code \in ExitCodes} \cup {Overdue, WaitFailed} :
         /\ exitEvent' = event
         /\ LeaveTry(ExitStatusResult(event))
    /\ UNCHANGED <<sessionVars, buildVars, updVars, envVars, cliVars, called, termVars, op, channel, setupVars, armVars,
                   relayVars, ttyRestores, sigRestores, chanCloses, cleanupFailed,
                   sigVars, streamLines, yielded>>

\* ---------------------------------------------------- _cleanup_resources
\* a direct call _cleanup_resources(channel, old_tty_attrs, old_handler), as
\* the unit tests make it; the channel argument may be None
CallCleanupResources ==
    /\ pc = "idle"
    /\ ~called
    /\ called' = TRUE
    /\ op' = "cleanup"
    /\ \E ch \in {"none", "open"}, attrs \in {"cooked", "raw"},
          handler \in {"prev", "resize"} :
         /\ channel' = ch
         /\ old_tty_attrs' = attrs
         /\ old_handler' = handler
    /\ cleanupCalls' = 1
    /\ loopResult' = Return(0)
    /\ exitEvent' = NoEvent
    /\ result' = None
    /\ pc' = "cleanup_tty"
    /\ ptyDims' = <<>>
    /\ sizeQuery' = NoQuery
    /\ chanCalls' = <<>>
    /\ rawEntered' = FALSE
    /\ timeouts' = <<>>
    /\ r' = {}
    /\ data' = <<>>
    /\ recvErrSeen' = FALSE
    /\ recvLog' = <<>>
    /\ writeCalls' = <<>>
    /\ writeOk' = <<>>
    /\ flushLog' = <<>>
    /\ stdoutBytes' = <<>>
    /\ flushedLen' = 0
    /\ stdinLog' = <<>>
    /\ sendCalls' = <<>>
    /\ chanAccepted' = <<>>
    /\ loopExit' = "none"
    /\ ttyRestores' = 0
    /\ sigRestores' = 0
    /\ chanCloses' = 0
    /\ cleanupFailed' = {}
    /\ resizes' = 0
    /\ resizeReqs' = <<>>
    /\ streamLines' = <<>>
    /\ yielded' = <<>>
    /\ UNCHANGED <<sessionVars, buildVars, updVars, envVars, cliVars, termVars>>

\* except Exception as e: logger.warning("Failed to restore terminal settings")
TtyRestoreFailed_Uncaught ==
    /\ pc' = "idle"
    /\ result' = Raise("termios.error")
    /\ UNCHANGED <<ttyMode, cleanupFailed>>

TtyRestoreFailed ==
    /\ cleanupFailed' = cleanupFailed \cup {"tty"}
    /\ pc' = "cleanup_signal"
    /\ UNCHANGED <<ttyMode, result>>

\* try: termios.tcsetattr(sys.stdin, termios.TCSADRAIN, old_tty_attrs)
CleanupTty ==
    /\ pc = "cleanup_tty"
    /\ ttyRestores' = ttyRestores + 1
    /\ \/ /\ ttyMode' = old_tty_attrs
          /\ pc' = "cleanup_signal"
          /\ UNCHANGED <<cleanupFailed, result>>
       \/ TtyRestoreFailed
    /\ UNCHANGED <<sessionVars, buildVars, updVars, envVars, cliVars, called, sigHandler, op, channel, setupVars, armVars,
                   relayVars, loopResult, exitEvent, cleanupCalls, sigRestores, chanCloses,
                   sigVars, streamLines, yielded>>

\* except Exception as e: logger.warning("Failed to restore signal handler")
SignalRestoreFailed_Uncaught ==
    /\ pc' = "idle"
    /\ result' = Raise("OSError")
    /\ UNCHANGED <<sigHandler, cleanupFailed>>

SignalRestoreFailed ==
    /\ cleanupFailed' = cleanupFailed \cup {"signal"}
    /\ pc' = "cleanup_channel"
    /\ UNCHANGED <<sigHandler, result>>

\* try: signal.signal(signal.SIGWINCH, old_handler)
CleanupSignal ==
    /\ pc = "cleanup_signal"
    /\ sigRestores' = sigRestores + 1
    /\ \/ /\ sigHandler' = old_handler
          /\ pc' = "cleanup_channel"
          /\ UNCHANGED <<cleanupFailed, result>>
       \/ SignalRestoreFailed
    /\ UNCHANGED <<sessionVars, buildVars, updVars, envVars, cliVars, called, ttyMode, op, channel, setupVars, armVars, relayVars,
                   loopResult, exitEvent, cleanupCalls, ttyRestores, chanCloses, sigVars, streamLines, yielded>>

\* _cleanup_resources returns; the finally clause ends and the pending outcome
\* of the try block (return value or exception) reaches the caller
FinishCleanup_RunsAgain ==
    IF loopResult.kind = "raise" /\ cleanupCalls < 2
    THEN pc' = "cleanup_tty" /\ cleanupCalls' = cleanupCalls + 1 /\ UNCHANGED result
    ELSE pc' = "idle" /\ result' = loopResult /\ UNCHANGED cleanupCalls

FinishCleanup ==
    /\ pc' = "idle"
    /\ result' = loopResult
    /\ UNCHANGED cleanupCalls

\* try: if channel: channel.close()
\* except Exception: log
CleanupChannel ==
    /\ pc = "cleanup_channel"
    /\ IF channel = "none"
       THEN UNCHANGED <<channel, chanCloses, cleanupFailed>>
       ELSE /\ chanCloses' = chanCloses + 1
            /\ \E ok \in BOOLEAN :
                 IF ok THEN channel' = "closed" /\ UNCHANGED cleanupFailed
                       ELSE cleanupFailed' = cleanupFailed \cup {"close"}
                            /\ UNCHANGED channel
    /\ FinishCleanup
    /\ UNCHANGED <<sessionVars, buildVars, updVars, envVars, cliVars, called, termVars, op, setupVars, armVars, relayVars,
                   loopResult, exitEvent, ttyRestores, sigRestores, sigVars, streamLines, yielded>>

\* -------------------------------------------------------- _resize_handler
\* positions inside the try block of run_interactive_shell
TryPcs == {"settimeout0"} \cup LoopPcs \cup {"settimeout5", "recv_exit"}

\* an exception raised on the thread of control at its current position: the
\* finally clause takes it inside the try block, the caller outside
InterruptedBy(e) ==
    IF pc \in TryPcs THEN LeaveTry(Raise(e))
    ELSE Propagate(e) /\ UNCHANGED <<loopResult, cleanupCalls>>

\* whether an exception leaves _resize_handler: "except OSError" takes the
\* failure of the size query, "except Exception" whatever resize_pty raises
HandlerRaises_ResizeFailureUncaught(active, q, resizeOk) ==
    active /\ q.kind = "size" /\ ~resizeOk

HandlerRaises(active, q, resizeOk) == FALSE

\* the resize_pty calls of one handler run: if channel and channel.active:
\* c, r = os.get_terminal_size(); channel.resize_pty(width=c, height=r)
ResizeRequests_DefaultOnFailure(active, q) ==
    IF active THEN << PtySize(q) >> ELSE <<>>

ResizeRequests(active, q) ==
    IF active /\ q.kind = "size" THEN << <<q.cols, q.rows>> >> ELSE <<>>

\* how one run of the handler can go: the channel is not active (no query is
\* made); the size query raises; resize_pty is called and returns or raises.
\* A channel that is open on this side may have stopped being active.
HandlerRun(a, qr, ok) == [active |-> a, q |-> qr, resizeOk |-> ok]

HandlerRuns_NoActiveTest(ch) ==
    {HandlerRun(TRUE, QueryFailed, TRUE)}
    \cup {HandlerRun(TRUE, qr, ok) : qr \in SizeQueries \ {QueryFailed}, ok \in BOOLEAN}

HandlerRuns(ch) ==
    {HandlerRun(FALSE, NoQuery, TRUE)}
    \cup (IF ch = "open"
          THEN {HandlerRun(TRUE, QueryFailed, TRUE)}
               \cup {HandlerRun(TRUE, qr, ok) : qr \in SizeQueries \ {QueryFailed},
                                                ok \in BOOLEAN}
          ELSE {})

\* SIGWINCH delivered while the handler installed by this call is in place
ResizeHandler ==
    /\ sigHandler = "resize"
    /\ old_handler # "none"
    /\ op = "interactive"
    /\ resizes < MaxResize
    /\ resizes' = resizes + 1
    /\ \E run \in HandlerRuns(channel) :
         /\ resizeReqs' = resizeReqs \o ResizeRequests(run.active, run.q)
         /\ IF HandlerRaises(run.active, run.q, run.resizeOk)
            THEN InterruptedBy("SSHException")
            ELSE UNCHANGED <<pc, result, loopResult, cleanupCalls>>
    /\ UNCHANGED <<sessionVars, buildVars, updVars, envVars, cliVars, called, termVars, op, channel, setupVars,
                   armVars, relayVars, exitEvent, ttyRestores, sigRestores, chanCloses,
                   cleanupFailed, streamLines, yielded>>

\* --------------------------------------------------- exec_command_stream
\* first resumption of the generator: the not-connected check
ExecCommandStream ==
    /\ pc = "idle"
    /\ ~called
    /\ called' = TRUE
    /\ op' = "stream"
    /\ FreshCall
    /\ IF NotConnected THEN RaiseSSHError("Client not connected")
       ELSE pc' = "stream_exec" /\ result' = None
    /\ UNCHANGED <<sessionVars, buildVars, updVars, envVars, cliVars, termVars>>

\* stdin, stdout, stderr = self.client.exec_command(full_command, get_pty=pty)
\* paramiko opens a session channel, then requests the pty and the command;
\* SSHException is translated to SSHError, the channel is not touched
StreamExec ==
    /\ pc = "stream_exec"
    /\ IF transport = "none"
       THEN Propagate("AttributeError") /\ UNCHANGED channel
       ELSE \/ channel' = "open" /\ pc' = "stream_next" /\ UNCHANGED result
            \/ RaiseSSHError("Command execution failed") /\ UNCHANGED channel
            \/ RaiseSSHError("Command execution failed") /\ channel' = "open"
    /\ UNCHANGED <<sessionVars, buildVars, updVars, envVars, cliVars, called, termVars, op, setupVars, armVars, relayVars, loopResult, exitEvent,
                   cleanupVars, sigVars, streamLines, yielded>>

\* for line in stdout: the iteration delivers the next line, ends when the
\* remote side has closed the stream, or raises
StreamNext ==
    /\ pc = "stream_next"
    /\ \/ \E line \in Lines :
            /\ Len(streamLines) < MaxLines
            /\ streamLines' = Append(streamLines, line)
            /\ pc' = "stream_yield"
            /\ UNCHANGED result
       \/ pc' = "stream_status" /\ UNCHANGED <<streamLines, result>>
       \/ RaiseSSHError("Command execution failed") /\ UNCHANGED streamLines
    /\ UNCHANGED <<sessionVars, buildVars, updVars, envVars, cliVars, called, termVars, op, channel, setupVars, armVars, relayVars,
                   loopResult, exitEvent, cleanupVars, sigVars, yielded>>

\* yield line: the body of the for loop hands every line to the consumer
YieldLine_OnLogLine(line) ==
    yielded' = IF Len(streamLines) % 2 = 0 THEN Append(yielded, line) ELSE yielded

YieldLine(line) == yielded' = Append(yielded, line)

\* line_count += 1; yield line; the consumer's next() resumes the loop
StreamYield ==
    /\ pc = "stream_yield"
    /\ YieldLine(streamLines[Len(streamLines)])
    /\ pc' = "stream_next"
    /\ UNCHANGED <<sessionVars, buildVars, updVars, envVars, cliVars, called, termVars, op, channel, setupVars, armVars, relayVars,
                   loopResult, exitEvent, cleanupVars, sigVars, streamLines, result>>

\* the generator ends by return or raise with no call of self.client.close()
\* and no assignment to self.client: the transport is left as it is
SessionAfterStream_Closed(t) == "none"

SessionAfterStream(t) == t

\* exit_code = stdout.channel.recv_exit_status(); return exit_code
\* No timeout is set on the channel: the call returns when the status arrives,
\* however late; while EXIT_STATUS_TIMEOUT passes without it the call is still
\* blocked.  paramiko.SSHException is translated to SSHError.
StreamStatus ==
    /\ pc = "stream_status"
    /\ transport' = SessionAfterStream(transport)
    /\ \/ \E code \in ExitCodes :
            /\ exitEvent' = Reported(code)
            /\ result' = Return(code)
            /\ pc' = "idle"
       \/ /\ exitEvent = NoEvent
          /\ exitEvent' = Overdue
          /\ UNCHANGED <<pc, result>>
       \/ /\ exitEvent' = WaitFailed
          /\ RaiseSSHError("Command execution failed")
    /\ UNCHANGED <<clientObj, HAS_TTY, key_filename, password, connect_kwargs, buildVars, updVars, envVars, cliVars, called, termVars, op, channel, setupVars, armVars, relayVars,
                   loopResult, cleanupVars, sigVars, streamLines, yielded>>

Next ==
    \/ Connect
    \/ Close
    \/ RunInteractiveShell
    \/ OpenSession
    \/ GetPty
    \/ ExecCommand
    \/ TcGetAttr
    \/ InstallHandler
    \/ SetRaw
    \/ SetNonBlocking
    \/ Select
    \/ ChannelRecv
    \/ StdoutWrite
    \/ StdoutFlush
    \/ StdinRead
    \/ ChannelSend
    \/ SetBounded
    \/ RecvExitStatus
    \/ CallCleanupResources
    \/ CleanupTty
    \/ CleanupSignal
    \/ CleanupChannel
    \/ ResizeHandler
    \/ ExecCommandStream
    \/ StreamExec
    \/ StreamNext
    \/ StreamYield
    \/ StreamStatus

Spec == Init /\ [][Next]_vars

\* the steps of the calling thread once `while True` is left: the two calls
\* of the exit-status wait and the three steps of _cleanup_resources. None
\* of them waits on the peer without bound (the status wait runs under the
\* 5 s timeout), so the thread takes each of them once it is there
AfterLoopSteps ==
    SetBounded \/ RecvExitStatus \/ CleanupTty \/ CleanupSignal \/ CleanupChannel

\* one call of run_interactive_shell on its own: the session, the setup, the
\* relay loop, the status wait and the teardown. The resize handler is left
\* out: it returns to the interrupted step whatever happens inside it
\* (HandlerRaises), so it neither adds nor removes a step of the thread
NextShell ==
    \/ Connect
    \/ Close
    \/ RunInteractiveShell
    \/ OpenSession
    \/ GetPty
    \/ ExecCommand
    \/ TcGetAttr
    \/ InstallHandler
    \/ SetRaw
    \/ SetNonBlocking
    \/ Select
    \/ ChannelRecv
    \/ StdoutWrite
    \/ StdoutFlush
    \/ StdinRead
    \/ ChannelSend
    \/ SetBounded
    \/ RecvExitStatus
    \/ CleanupTty
    \/ CleanupSignal
    \/ CleanupChannel

SpecFair == Init /\ [][NextShell]_vars /\ WF_vars(AfterLoopSteps)

\* the Session alone, built with any combination of key file and password
InitSession ==
    /\ Constructed
    /\ key_filename \in Credentials
    /\ password \in Credentials
    /\ TERM = Absent
    /\ built = NoBuild
    /\ CliOff
    /\ UpdOff

NextSession ==
    \/ Connect
    \/ Close

SpecSession == InitSession /\ [][NextSession]_vars

\* Setup of run_interactive_shell under any TERM of the process environment
\* (not set, set to a name, set to "")
TermEnv == {Absent, Some(<<"xterm">>), Some(<<>>)}

InitSetup ==
    /\ Constructed
    /\ key_filename = "None"
    /\ password = "None"
    /\ TERM \in TermEnv
    /\ built = NoBuild
    /\ CliOff
    /\ UpdOff

NextSetup ==
    \/ Connect
    \/ Close
    \/ RunInteractiveShell
    \/ OpenSession
    \/ GetPty
    \/ ExecCommand

SpecSetup == InitSetup /\ [][NextSetup]_vars

\* the Command Composer, called at any time in the life of a Session
NextBuild ==
    \/ BuildCommand
    \/ Connect
    \/ Close

SpecBuild == Init /\ [][NextBuild]_vars

\* ------------------------------------------------------------------ cli()
\* is_interactive = tty and sys.stdout.isatty(), and False again when the
\* import of rich.console raises ImportError
IsInteractive_RichIgnored(tty, isatty, noRich) == tty /\ isatty

IsInteractive(tty, isatty, noRich) == tty /\ isatty /\ ~noRich

\* "except SSHError": the one exception the try statement of cli() handles
HandledByExcept_Never(res) == FALSE

HandledByExcept(res) == res.kind = "raise" /\ res.exc = "SSHError"

\* where cli() goes after a call made inside its try statement: on with the
\* body, to the except clause, or to the finally clause with the exception
AfterCall_NoFinally(res, onward) ==
    IF res.kind = "return" THEN cliPc' = onward /\ UNCHANGED pending
    ELSE IF HandledByExcept(res) THEN cliPc' = "except" /\ UNCHANGED pending
    ELSE cliPc' = "done" /\ pending' = Uncaught(res.exc)

AfterCall(res, onward) ==
    IF res.kind = "return" THEN cliPc' = onward /\ UNCHANGED pending
    ELSE IF HandledByExcept(res) THEN cliPc' = "except" /\ UNCHANGED pending
    ELSE cliPc' = "finally" /\ pending' = Uncaught(res.exc)

\* sys.exit(code) or return where no try statement encloses it
ExitNow(code) ==
    /\ exitStatus' = Exited(code)
    /\ cliPc' = "done"

\* what run_interactive_shell gives past its entry checks: the remote status,
\* the sentinel, or an exception of Setup, Arm, the relay or teardown
InteractiveRunResults ==
    {Return(c) : c \in ExitCodes \cup {EXIT_SENTINEL}}
    \cup {SSHError("Transport not active")}
    \cup {Raise(e) : e \in {"SSHException", "termios.error", "OSError"}}

\* what consuming exec_command_stream to its end gives past the entry check
StreamRunResults ==
    {Return(c) : c \in ExitCodes}
    \cup {SSHError("Command execution failed"), Raise("AttributeError")}

\* what the executor cli() picked gives on the Session as it is
InteractiveResults ==
    IF EntryError(TRUE) # "" THEN {SSHError(EntryError(TRUE))} ELSE InteractiveRunResults

StreamResults ==
    IF NotConnected THEN {SSHError("Client not connected")} ELSE StreamRunResults

\* --init, no command, and the choice of the mode
CliStart ==
    /\ cliPc = "start"
    /\ IF opts.init \/ ~opts.hasCommand
       THEN ExitNow(0) /\ UNCHANGED is_interactive
       ELSE /\ is_interactive' = IsInteractive(opts.tty, stdoutIsatty, richMissing)
            /\ cliPc' = "config"
            /\ UNCHANGED exitStatus
    /\ UNCHANGED <<sshVars, buildVars, updVars, opts, stdoutIsatty, richMissing, config, cliCalls,
                   stderr, pending>>

\* 1. Load Configuration: ConfigError and a server without host or user end
\* the process with status 1; with a console the ConfigError line goes to it
CliLoadConfig ==
    /\ cliPc = "config"
    /\ IF config.kind = "ConfigError"
       THEN /\ stderr' = IF is_interactive THEN stderr
                         ELSE Append(stderr, "Configuration Error")
            /\ ExitNow(1)
       ELSE IF ~config.hostUser
       THEN /\ stderr' = Append(stderr, "Error: 'host' and 'user' are required")
            /\ ExitNow(1)
       ELSE cliPc' = "sync" /\ UNCHANGED <<stderr, exitStatus>>
    /\ UNCHANGED <<sshVars, buildVars, updVars, opts, stdoutIsatty, richMissing, config,
                   is_interactive, cliCalls, pending>>

\* the class cli() builds its syncer from, "" when the engine is not supported
SyncerFor(engine) ==
    CASE engine = "rsync" -> "RsyncSyncer"
      [] engine = "sftp" -> "SftpSyncer"
      [] OTHER -> ""

\* except SyncError: click.secho("Sync Failed: ...", err=True); sys.exit(1)
SyncFailed_GoesOn ==
    /\ stderr' = Append(stderr, "Sync Failed")
    /\ cliPc' = "execute"
    /\ UNCHANGED exitStatus

SyncFailed ==
    /\ stderr' = Append(stderr, "Sync Failed")
    /\ ExitNow(1)

\* 2. Sync Code
CliSync ==
    /\ cliPc = "sync"
    /\ IF ~opts.sync
       THEN cliPc' = "execute" /\ UNCHANGED <<cliCalls, stderr, exitStatus>>
       ELSE IF ~config.remote_dir
       THEN /\ stderr' = Append(stderr, "Error: 'remote_dir' is required for sync.")
            /\ ExitNow(1)
            /\ UNCHANGED cliCalls
       ELSE IF SyncerFor(config.engine) = "" \/ opts.dry_run
       THEN cliPc' = "execute" /\ UNCHANGED <<cliCalls, stderr, exitStatus>>
       ELSE /\ cliCalls' = Append(cliCalls, SyncerFor(config.engine) \o ".sync")
            /\ \E ok \in BOOLEAN :
                 IF ok THEN cliPc' = "execute" /\ UNCHANGED <<stderr, exitStatus>>
                 ELSE SyncFailed
    /\ UNCHANGED <<sshVars, buildVars, updVars, opts, stdoutIsatty, richMissing, config,
                   is_interactive, pending>>

\* 3. Execute Command: --dry-run returns, otherwise the Session is built
CliExecute ==
    /\ cliPc = "execute"
    /\ IF opts.dry_run
       THEN ExitNow(0) /\ UNCHANGED cliCalls
       ELSE /\ cliCalls' = Append(cliCalls, "SSHClientWrapper")
            /\ cliPc' = "connect"
            /\ UNCHANGED exitStatus
    /\ UNCHANGED <<sshVars, buildVars, updVars, opts, stdoutIsatty, richMissing, config,
                   is_interactive, stderr, pending>>

\* try: ssh.connect()
CliConnect ==
    /\ cliPc = "connect"
    /\ ConnectCall
    /\ cliCalls' = Append(cliCalls, "connect")
    /\ AfterCall(result', "executor")
    /\ UNCHANGED <<HAS_TTY, key_filename, password, called, termVars, pc, buildVars, updVars,
                   envVars, opts, stdoutIsatty, richMissing, config, is_interactive,
                   stderr, exitStatus>>

\* sys.exit(exit_code) with the value the executor returned
RequestedExit_ZeroOrOne(res) == SystemExit(IF res.code = 0 THEN 0 ELSE 1)

RequestedExit(res) == SystemExit(res.code)

\* if is_interactive: sys.exit(ssh.run_interactive_shell(...))
\* else: the lines of ssh.exec_command_stream(..., pty=False) are echoed until
\* StopIteration carries the exit code, then sys.exit(exit_code).
\* The executor is taken by its outcome; SystemExit is no SSHError and goes
\* to the finally clause.
CliRunExecutor ==
    /\ cliPc = "executor"
    /\ called' = TRUE
    /\ IF is_interactive
       THEN /\ op' = "interactive"
            /\ cliCalls' = Append(cliCalls, "run_interactive_shell")
            /\ result' \in InteractiveResults
       ELSE /\ op' = "stream"
            /\ cliCalls' = Append(cliCalls, "exec_command_stream(pty=False)")
            /\ result' \in StreamResults
    /\ IF result'.kind = "return"
       THEN cliPc' = "finally" /\ pending' = RequestedExit(result')
       ELSE AfterCall(result', "finally")
    /\ UNCHANGED <<sessionVars, termVars, pc, channel, setupVars, armVars, relayVars,
                   loopResult, exitEvent, cleanupVars, sigVars, streamLines, yielded,
                   buildVars, updVars, envVars, opts, stdoutIsatty, richMissing, config,
                   is_interactive, stderr, exitStatus>>

\* except SSHError as e: click.secho(f"SSH Error: {e}", err=True); sys.exit(1)
CliExcept ==
    /\ cliPc = "except"
    /\ stderr' = Append(stderr, "SSH Error")
    /\ pending' = SystemExit(1)
    /\ cliPc' = "finally"
    /\ UNCHANGED <<sshVars, buildVars, updVars, opts, stdoutIsatty, richMissing, config,
                   is_interactive, cliCalls, exitStatus>>

\* the end of the process once the finally clause is through: an exception of
\* close() takes the place of the one that was on its way
ProcessEnd(closeResult, p) ==
    IF closeResult.kind = "raise" \/ p.kind = "exception" THEN Crashed
    ELSE Exited(p.code)

\* finally: ssh.close()
CliFinally ==
    /\ cliPc = "finally"
    /\ CloseCall
    /\ cliCalls' = Append(cliCalls, "close")
    /\ exitStatus' = ProcessEnd(result', pending)
    /\ stderr' = IF exitStatus' = Crashed THEN Append(stderr, "Traceback") ELSE stderr
    /\ cliPc' = "done"
    /\ UNCHANGED <<HAS_TTY, key_filename, password, called, termVars, pc, buildVars, updVars,
                   envVars, opts, stdoutIsatty, richMissing, config, is_interactive,
                   pending>>

\* one invocation of cli() from the shell, on the main thread
InitCli ==
    /\ Constructed
    /\ key_filename = "None"
    /\ password = "None"
    /\ TERM = Absent
    /\ built = NoBuild
    /\ cliPc = "start"
    /\ opts \in Options
    /\ stdoutIsatty \in BOOLEAN
    /\ richMissing \in BOOLEAN
    /\ config \in Configs
    /\ is_interactive = FALSE
    /\ cliCalls = <<>>
    /\ stderr = <<>>
    /\ pending = NoPending
    /\ exitStatus = Running
    /\ UpdOff

NextCli ==
    \/ CliStart
    \/ CliLoadConfig
    \/ CliSync
    \/ CliExecute
    \/ CliConnect
    \/ CliRunExecutor
    \/ CliExcept
    \/ CliFinally

SpecCli == InitCli /\ [][NextCli]_vars

\* exec_command_stream on a Session that connect() and close() may have been
\* called on, consumed line by line; a consumer that abandons the generator
\* takes no further step of it
NextStream ==
    \/ Connect
    \/ Close
    \/ ExecCommandStream
    \/ StreamExec
    \/ StreamNext
    \/ StreamYield
    \/ StreamStatus

SpecStream == Init /\ [][NextStream]_vars

\* ---------------------------------------------------------- UpdateChecker
\* should_check(): the environment variable, then the cached time
ShouldCheck_NoInterval(dis, c, t) == ~dis

ShouldCheck(dis, c, t) ==
    IF dis THEN FALSE
    ELSE IF c.file # "json" \/ c.last.kind = "absent" THEN TRUE
    ELSE IF c.last.kind = "garbage" THEN TRUE
    ELSE t >= c.last.t + CHECK_INTERVAL_HOURS

\* what _save_cache leaves of the file: the new entries; or, after an IOError
\* of open() or json.dump(), the old file or a truncated one; or the old file
\* when the directory could not be made
CacheAfterSave(save, c, t, latest) ==
    CASE save = "ok" -> {Cache(TimeAt(t), latest)}
      [] save = "IOError" -> {c, CorruptCache}
      [] OTHER -> {c}

\* what check() gives its caller: the update message, None, or the OSError
\* of the mkdir in _save_cache
CheckReturn(save, latest) ==
    IF save = "mkdir" THEN "OSError"
    ELSE IF latest > CurrentVersion THEN "message"
    ELSE "None"

\* check(): the gate, get_latest_version(), _save_cache(), the comparison
Check ==
    /\ checks < MaxChecks
    /\ checks' = checks + 1
    /\ IF ~ShouldCheck(disabled, cache, now)
       THEN /\ lastCheck' = [found |-> cache, at |-> now, fetched |-> FALSE,
                             ret |-> "None"]
            /\ UNCHANGED <<cache, fetchLog>>
       ELSE \E latest \in FetchOutcomes, save \in SaveOutcomes :
              /\ cache' \in CacheAfterSave(save, cache, now, latest)
              /\ fetchLog' = Append(fetchLog, [t |-> now, saved |-> save = "ok"])
              /\ lastCheck' = [found |-> cache, at |-> now, fetched |-> TRUE,
                               ret |-> CheckReturn(save, latest)]
    /\ UNCHANGED <<sshVars, buildVars, cliVars, now, disabled>>

\* time passes
Tick ==
    /\ now < MaxTicks * TickHours
    /\ now' = now + TickHours
    /\ UNCHANGED <<sshVars, buildVars, cliVars, disabled, cache, checks, fetchLog, lastCheck>>

\* an UpdateChecker over any cache file found at the start
InitUpdate ==
    /\ Constructed
    /\ key_filename = "None"
    /\ password = "None"
    /\ TERM = Absent
    /\ built = NoBuild
    /\ CliOff
    /\ now = 0
    /\ disabled \in BOOLEAN
    /\ cache \in StartCaches
    /\ checks = 0
    /\ fetchLog = <<>>
    /\ lastCheck = NoCheck

NextUpdate ==
    \/ Check
    \/ Tick

SpecUpdate == InitUpdate /\ [][NextUpdate]_vars

\* ------------------------------------------------------------ properties
Interactive == op = "interactive"
Returned    == pc = "idle"

\* C1: once tty.setraw has succeeded, no call of run_interactive_shell gets
\* back to its caller (by return or by exception) without one attempt to
\* restore the captured terminal attributes; a restore that does not fail
\* puts exactly the captured attributes back.
C1_RestoreAttemptedAfterRaw ==
    (Interactive /\ Returned /\ rawEntered) =>
        /\ ttyRestores >= 1
        /\ ("tty" \notin cleanupFailed => ttyMode = old_tty_attrs)

C1_Witness ==
    /\ Interactive /\ Returned /\ rawEntered
    /\ loopExit = "exception" /\ result.kind = "raise"
    /\ ttyRestores = 1 /\ ttyMode = "cooked"

\* C2: when Arm fails (tcgetattr or setraw raises termios.error) the channel
\* has been closed and the previous resize handler is back in place by the
\* time the error reaches the caller.
C2_ArmFailureTornDown ==
    (Interactive /\ Returned /\ result.exc = "termios.error") =>
        /\ channel = "closed"
        /\ (old_handler # "none" => sigHandler = old_handler)

\* C3: no executor (run_interactive_shell, exec_command_stream) returns or
\* raises while the channel it opened is still open.
C3_ChannelClosedOnEveryExit ==
    (op \in {"interactive", "stream"} /\ Returned) => channel # "open"

\* C4: _cleanup_resources is invoked exactly once in a call of
\* run_interactive_shell that entered raw mode: never twice at any point,
\* and once by the time the call is over.
C4_CleanupExactlyOnce ==
    /\ Interactive => cleanupCalls <= 1
    /\ (Interactive /\ Returned /\ rawEntered) => cleanupCalls = 1

C4_Witness ==
    /\ Interactive /\ Returned /\ rawEntered
    /\ loopExit = "local_eof" /\ cleanupCalls = 1

\* C5: when _cleanup_resources is over, each of the three steps has been
\* attempted exactly once whatever subset of them failed (the close step not
\* at all for a None channel), and no exception of a step has come out.
C5_CleanupStepsIndependent ==
    (op \in {"interactive", "cleanup"} /\ Returned /\ cleanupCalls = 1) =>
        /\ ttyRestores = 1
        /\ sigRestores = 1
        /\ chanCloses = IF channel = "none" THEN 0 ELSE 1
        /\ result = loopResult

C5_Witness ==
    /\ op = "cleanup" /\ Returned
    /\ cleanupFailed = {"tty", "signal", "close"}
    /\ ttyRestores = 1 /\ sigRestores = 1 /\ chanCloses = 1

\* C6: what run_interactive_shell hands to its caller after teardown is the
\* outcome of _run_event_loop (exit status, -1, or the exception it raised),
\* whichever teardown steps failed.
C6_TeardownKeepsExitStatus ==
    (Interactive /\ Returned /\ cleanupCalls >= 1) => result = loopResult

C6_Witness ==
    /\ Interactive /\ Returned
    /\ cleanupFailed = {"tty", "signal", "close"}
    /\ result = Return(EXIT_SENTINEL)

\* C7: when the channel delivers chunks and then a zero-length read while
\* local input delivers nothing, the loop is over at that read, write has
\* been called on standard output with exactly the delivered chunks, once
\* each and in order (not for the zero-length read), and send was not called.
C7_RemoteEofScenario ==
    (Interactive /\ loopExit = "remote_eof" /\ stdinLog = <<>>) =>
        /\ pc \notin LoopPcs
        /\ writeCalls = recvLog
        /\ sendCalls = <<>>

C7_Witness ==
    /\ Interactive /\ Returned
    /\ loopExit = "remote_eof" /\ stdinLog = <<>>
    /\ Len(recvLog) = 2 /\ recvLog[1] # recvLog[2]
    /\ writeCalls = recvLog

\* C8: every send carries at least one byte; a zero-length read of local
\* input ends the loop, and from that read on no send is made.
C8_SendsNonEmpty ==
    /\ \A i \in 1..Len(sendCalls) : sendCalls[i] # <<>>
    /\ loopExit = "local_eof" => pc \notin LoopPcs

C8_LocalEofNeverForwarded ==
    /\ []C8_SendsNonEmpty
    /\ [][(loopExit = "local_eof" /\ loopExit' = "local_eof")
            => sendCalls' = sendCalls]_vars

C8_Witness ==
    /\ Interactive /\ Returned
    /\ loopExit = "local_eof" /\ Len(sendCalls) = 1

\* C9 (as stated): between iterations standard output holds exactly the
\* concatenation of the chunks received, all of it flushed.
C9_OutputIsConcatenation ==
    (Interactive /\ pc \notin {"write", "flush"}) =>
        /\ stdoutBytes = Concat(recvLog)
        /\ flushedLen = Len(stdoutBytes)

\* C9 (amended): every chunk received is passed to one write, in arrival
\* order; standard output holds, in that order and without duplication, what
\* each write accepted (a write that raises drops the rest of its chunk);
\* one flush is attempted after every write that returned; with no write or
\* flush failure the output is the concatenation of the chunks, flushed.
C9_OutputInOrderUnlessWriteFails ==
    (Interactive /\ pc \notin {"write", "flush"}) =>
        /\ writeCalls = recvLog
        /\ Len(writeOk) = Len(writeCalls)
        /\ stdoutBytes = AcceptedBytes(writeCalls, writeOk)
        /\ Len(flushLog) =
             Cardinality({i \in 1..Len(writeOk) : writeOk[i] = Len(writeCalls[i])})
        /\ ( /\ \A i \in 1..Len(writeOk) : writeOk[i] = Len(writeCalls[i])
             /\ \A j \in 1..Len(flushLog) : flushLog[j] )
           => (stdoutBytes = Concat(recvLog) /\ flushedLen = Len(stdoutBytes))

C9_Witness ==
    /\ Interactive /\ pc = "select"
    /\ Len(recvLog) = 2 /\ recvLog[1] # recvLog[2]
    /\ writeOk = <<0, Len(recvLog[2])>>
    /\ stdoutBytes = recvLog[2]
    /\ flushedLen = Len(stdoutBytes)

\* C10: the bytes the channel has accepted are the concatenation of the
\* chunks read from local input, whatever send did (all, part, would-block).
C10_InputForwardedInFull ==
    (Interactive /\ pc # "send") => chanAccepted = Concat(stdinLog)

\* --------------------------------------------------------------- C11
\* the relay loop was entered and control is past it
PastLoop == Interactive /\ timeouts # <<>> /\ pc \notin LoopPcs

EofExits == {"remote_eof", "local_eof"}

\* C11 as stated: the relay loop ends only when a read from the channel or
\* from local input returns zero bytes; neither an I/O error, nor a failure of
\* the readiness wait, nor a resize event ends it.
C11_LoopEndsOnlyOnEof == PastLoop => loopExit \in EofExits

\* C11 amended: control leaves the relay loop only from a channel read or a
\* local-input read that returned zero bytes, or from select by the exception
\* select raised, which _run_event_loop does not catch; errors of recv,
\* write, flush, read and send are swallowed inside the loop, and a resize
\* event leaves the position in the loop and its exit flag as they were.
C11_LoopEndsOnEofOrSelectFailure ==
    [][/\ (Interactive /\ pc \in LoopPcs /\ pc' \notin LoopPcs) =>
            \/ pc = "recv" /\ loopExit' = "remote_eof" /\ pc' = "settimeout5"
            \/ pc = "read" /\ loopExit' = "local_eof" /\ pc' = "settimeout5"
            \/ pc = "select" /\ loopExit' = "exception" /\ loopResult'.kind = "raise"
       /\ (Interactive /\ resizes' = resizes + 1) => (pc' = pc /\ loopExit' = loopExit)
      ]_vars

\* a run in which a channel read raised, a write failed, a send took nothing
\* and a resize arrived, and whose loop then ended on the remote EOF
C11_Witness ==
    /\ PastLoop
    /\ loopExit = "remote_eof"
    /\ recvErrSeen
    /\ \E i \in 1..Len(writeOk) : writeOk[i] < Len(writeCalls[i])
    /\ sendCalls # <<>> /\ chanAccepted = <<>>
    /\ resizes = 1

\* --------------------------------------------------------------- C12
\* C12: an exception raised by a channel read is never treated as EOF.  In a
\* run in which some channel read raised: the loop is still running unless a
\* zero-byte read or select's exception has ended it; standard output was
\* handed exactly the chunks the successful reads returned, nothing for a
\* read that raised; and the status the remote reported is the value returned.
C12_RecvErrorIsNotEof ==
    (Interactive /\ recvErrSeen) =>
        /\ loopExit = "none" => pc \in LoopPcs
        /\ pc # "write" => writeCalls = recvLog
        /\ pc = "write" => writeCalls = Prefix(recvLog, Len(recvLog) - 1)
        /\ (Returned /\ exitEvent.kind = "status") => result = Return(exitEvent.code)

\* a channel read raised, a chunk was read and written, the remote EOF ended
\* the loop and the reported status 1 was returned
C12_Witness ==
    /\ Interactive /\ Returned
    /\ recvErrSeen
    /\ recvLog # <<>> /\ writeCalls = recvLog
    /\ loopExit = "remote_eof"
    /\ exitEvent = Reported(1)
    /\ result = Return(1)

\* --------------------------------------------------------------- C13
\* every step of _cleanup_resources was attempted once
TeardownRan ==
    cleanupCalls = 1 /\ ttyRestores = 1 /\ sigRestores = 1 /\ chanCloses = 1

\* C13: when the remote exit status is overdue after the relay loop has ended,
\* run_interactive_shell returns the sentinel -1 as a value, raises nothing,
\* and teardown has run; when the status is reported in time, that status is
\* the value returned.
C13_OverdueStatusGivesSentinel ==
    (Interactive /\ Returned /\ exitEvent.kind \in {"status", "overdue"}) =>
        /\ exitEvent = Overdue => result = Return(EXIT_SENTINEL)
        /\ exitEvent.kind = "status" => result = Return(exitEvent.code)
        /\ result.kind = "return"
        /\ TeardownRan

\* the loop ended on local EOF, the status was overdue and -1 came back
C13_Witness ==
    /\ Interactive /\ Returned
    /\ loopExit = "local_eof"
    /\ exitEvent = Overdue
    /\ result = Return(-1)
    /\ TeardownRan /\ ttyMode = "cooked" /\ channel = "closed"

\* --------------------------------------------------------------- C14
\* C14 as stated: the exit status is requested strictly after the relay loop
\* has ended, and the channel's wait mode is set exactly twice per run: to
\* non-blocking before the first readiness wait, to the bounded wait after the
\* loop.
C14_WaitModeSetTwicePerRun ==
    Interactive =>
        /\ pc \in LoopPcs => (timeouts = <<NONBLOCKING_TIMEOUT>> /\ exitEvent = NoEvent)
        /\ exitEvent # NoEvent => pc \notin LoopPcs
        /\ (Returned /\ timeouts # <<>>) =>
               timeouts = <<NONBLOCKING_TIMEOUT, EXIT_STATUS_TIMEOUT>>

\* C14 amended: while the loop runs the wait mode has been set once, to
\* non-blocking, and no exit status has been requested; the bounded wait is set
\* only after a zero-byte read has ended the loop, and from then on control
\* is outside the loop, so no recv, read or send follows the request; a run
\* whose loop ends on EOF sets the mode exactly twice, a run that select's
\* exception ends sets it once and requests no exit status.
C14_StatusRequestedAfterLoop ==
    Interactive =>
        /\ pc \in LoopPcs => (timeouts = <<NONBLOCKING_TIMEOUT>> /\ exitEvent = NoEvent)
        /\ pc = "settimeout5" => (timeouts = <<NONBLOCKING_TIMEOUT>> /\ loopExit \in EofExits)
        /\ Len(timeouts) = 2 =>
               /\ timeouts = <<NONBLOCKING_TIMEOUT, EXIT_STATUS_TIMEOUT>>
               /\ loopExit \in EofExits
               /\ pc \notin LoopPcs \cup {"settimeout0", "settimeout5"}
        /\ Len(timeouts) <= 2
        /\ exitEvent # NoEvent => Len(timeouts) = 2
        /\ (Returned /\ loopExit \in EofExits) => (Len(timeouts) = 2 /\ exitEvent # NoEvent)
        /\ loopExit = "exception" =>
               (timeouts = <<NONBLOCKING_TIMEOUT>> /\ exitEvent = NoEvent)

\* both directions carried data, the loop ended on EOF and the status came
C14_Witness ==
    /\ Interactive /\ Returned
    /\ recvLog # <<>> /\ stdinLog # <<>>
    /\ loopExit \in EofExits
    /\ timeouts = <<0, 5>>
    /\ exitEvent.kind = "status"

\* --------------------------------------------------------------- C15
Streaming == op = "stream"

\* C15: exec_command_stream resolves the exit status as run_interactive_shell
\* does: once the bounded wait has passed without a status, the call is over
\* and its terminal value is the sentinel -1.
C15_StreamUsesBoundedWait ==
    (Streaming /\ exitEvent = Overdue) => (Returned /\ result = Return(EXIT_SENTINEL))

\* --------------------------------------------------------------- C16
StreamPcs == {"stream_exec", "stream_next", "stream_yield", "stream_status"}

\* the lines yielded are the lines the stream delivered, in order, each once;
\* only the line just read may still be unyielded
C16_YieldedAreStreamLines ==
    Streaming =>
        /\ Len(yielded) <= Len(streamLines)
        /\ yielded = Prefix(streamLines, Len(yielded))
        /\ pc # "stream_yield" => yielded = streamLines
        /\ exitEvent # NoEvent => yielded = streamLines
        /\ (Returned /\ exitEvent.kind = "status") =>
               (result = Return(exitEvent.code) /\ yielded = streamLines)

\* C16: exec_command_stream yields exactly the lines the remote stream
\* produced, each once and in order, then ends with the exit status the remote
\* reported as its terminal value; the status is requested only after the
\* last line was yielded; the sequence only moves forward and, once ended,
\* is not resumed.
C16_StreamYieldsLinesThenStatus ==
    /\ []C16_YieldedAreStreamLines
    /\ [][/\ (Streaming /\ Streaming') =>
               (Len(yielded') >= Len(yielded) /\ Prefix(yielded', Len(yielded)) = yielded)
          /\ (Streaming /\ Returned) => pc' \notin StreamPcs
         ]_vars

\* two different lines were produced and yielded, then status 1 came
C16_Witness ==
    /\ Streaming /\ Returned
    /\ Len(streamLines) = 2 /\ streamLines[1] # streamLines[2]
    /\ yielded = streamLines
    /\ exitEvent = Reported(1)
    /\ result = Return(1)

\* --------------------------------------------------------------- C17
\* no handle is held: the executors' guard "if not self.client" fires
Unconnected == NotConnected /\ transport = "none"

SessionConnected == ~NotConnected /\ transport = "active"

\* C17: after any sequence of connect() and close() calls the Session is
\* either unconnected (no handle held, both executors fail with the
\* not-connected error) or connected (a usable transport), and it is
\* unconnected after a connect() that failed and after close().
C17_SessionTwoStates ==
    (Returned /\ op \in {"connect", "close"}) =>
        /\ Unconnected \/ SessionConnected
        /\ (op = "close" \/ result.kind = "raise") => Unconnected

\* --------------------------------------------------------------- C18
\* nothing of an executor call has touched the channel, the signal handler or
\* the terminal
NothingStarted ==
    /\ channel = "none" /\ ptyDims = <<>>
    /\ old_handler = "none" /\ sigHandler = "prev"
    /\ old_tty_attrs = "none" /\ ~rawEntered /\ ttyMode = "cooked"
    /\ timeouts = <<>> /\ streamLines = <<>>

\* C18: on a Session on which connect() was never called (self.client is
\* None), run_interactive_shell and exec_command_stream fail with
\* SSHError("Client not connected") before a channel is opened, a command
\* dispatched, a resize handler installed or the terminal mode changed.
C18_NeverConnectedFailsFirst ==
    ((Interactive \/ Streaming) /\ ~clientObj) =>
        /\ Returned
        /\ result = SSHError("Client not connected")
        /\ NothingStarted

\* run_interactive_shell called on a platform with a terminal, before any
\* connect()
C18_Witness ==
    /\ Interactive /\ ~clientObj /\ HAS_TTY
    /\ Returned
    /\ result = SSHError("Client not connected")

\* --------------------------------------------------------------- C19
\* C19: every failure of connect(), the handshake timing out as well as the
\* remote rejecting authentication, reaches the caller as SSHError and as no
\* other exception type.
C19_ConnectFailsWithSSHError ==
    (op = "connect" /\ Returned /\ result.kind = "raise") => result.exc = "SSHError"

\* --------------------------------------------------------------- C20
\* C20: connect() hands the transport one authentication method at most, by
\* precedence: the key file when one is configured, whether or not a password
\* is configured too; else the password when one is configured; else no
\* credentials; never both a key and a password.
C20_OneAuthMethodByPrecedence ==
    clientObj =>
        /\ Cardinality(connect_kwargs) <= 1
        /\ key_filename = "set" => connect_kwargs = {"key_filename"}
        /\ (key_filename # "set" /\ password = "set") => connect_kwargs = {"password"}
        /\ (key_filename # "set" /\ password # "set") => connect_kwargs = {}

\* key file and password both configured: connect() passed the key only
C20_Witness ==
    /\ op = "connect" /\ result = Return(0)
    /\ key_filename = "set" /\ password = "set"
    /\ connect_kwargs = {"key_filename"}

\* --------------------------------------------------------------- C21
\* C21: close() never raises and is idempotent: on a never-connected Session,
\* after a failed connect(), called once or repeatedly, and when releasing the
\* transport fails, it returns normally and leaves the Session closed.
C21_CloseNeverRaises ==
    (op = "close" /\ Returned) => (result = Return(0) /\ transport = "none")

\* --------------------------------------------------------------- C22
Sep == <<" ", "&&", " ">>

\* C22: for every non-empty command c, workdir w and pre-command p:
\* compose(c) = c, compose(c, w) = "cd " + w + " && " + c,
\* compose(c, p) = p + " && " + c, compose(c, w, p) = "cd " + w + " && " + p +
\* " && " + c; the result depends on the three arguments only, whatever the
\* Session has been through and whatever was composed before.
C22_ComposeByCases ==
    (built # NoBuild /\ built.command # <<>>) =>
        LET c == built.command
            w == built.workdir
            p == built.pre_cmd
        IN  /\ (~w.present /\ ~p.present) => built.out = c
            /\ (TruthyStr(w) /\ ~p.present) =>
                   built.out = <<"cd", " ">> \o w.s \o Sep \o c
            /\ (~w.present /\ TruthyStr(p)) => built.out = p.s \o Sep \o c
            /\ (TruthyStr(w) /\ TruthyStr(p)) =>
                   built.out = <<"cd", " ">> \o w.s \o Sep \o p.s \o Sep \o c

\* "a b" composed with workdir "/b c" and pre-command "p" on a Session that
\* was connected and closed meanwhile
C22_Witness ==
    /\ built.command = <<"a", " ", "b">>
    /\ built.workdir = Some(<<"/b", " ", "c">>)
    /\ built.pre_cmd = Some(<<"p">>)
    /\ built.out = <<"cd", " ", "/b", " ", "c", " ", "&&", " ", "p", " ", "&&", " ",
                     "a", " ", "b">>
    /\ op = "close" /\ clientObj

\* --------------------------------------------------------------- C23
RECURSIVE LStrip(_)
LStrip(s) == IF s # <<>> /\ Head(s) = " " THEN LStrip(Tail(s)) ELSE s

RECURSIVE RStrip(_)
RStrip(s) == IF s # <<>> /\ s[Len(s)] = " " THEN RStrip(Prefix(s, Len(s) - 1)) ELSE s

BeginsWithSep(s) == LStrip(s) # <<>> /\ Head(LStrip(s)) = "&&"

EndsWithSep(s) == RStrip(s) # <<>> /\ RStrip(s)[Len(RStrip(s))] = "&&"

RECURSIVE CountSep(_)
CountSep(s) ==
    IF s = <<>> THEN 0 ELSE (IF Head(s) = "&&" THEN 1 ELSE 0) + CountSep(Tail(s))

RECURSIVE CountSepIn(_)
CountSepIn(parts) ==
    IF parts = <<>> THEN 0 ELSE CountSep(Head(parts)) + CountSepIn(Tail(parts))

\* one part per segment that is given and not empty, and " && " between them
SeparatorsArePartsMinusOne ==
    /\ Len(built.parts) = 1 + (IF TruthyStr(built.workdir) THEN 1 ELSE 0)
                             + (IF TruthyStr(built.pre_cmd) THEN 1 ELSE 0)
    /\ CountSep(built.out) = CountSepIn(built.parts) + Len(built.parts) - 1

\* C23 as stated: for every input, workdir and pre-command each given or not
\* (None or empty), the composed command neither begins nor ends with "&&",
\* surrounding spaces ignored, and the separators inserted number the emitted
\* parts minus one.
C23_NoDanglingSeparator ==
    built # NoBuild =>
        /\ ~BeginsWithSep(built.out)
        /\ ~EndsWithSep(built.out)
        /\ SeparatorsArePartsMinusOne

\* a segment that holds more than spaces and has no "&&" at either end
Plain(s) == LStrip(s) # <<>> /\ ~BeginsWithSep(s) /\ ~EndsWithSep(s)

\* C23 amended: the separators inserted number the emitted parts minus one
\* for every input; the composed command neither begins nor ends with "&&"
\* whenever the command, and the pre-command when given and not empty, hold
\* more than spaces and have no "&&" at their own ends.
C23_NoDanglingSeparatorForPlainParts ==
    built # NoBuild =>
        /\ SeparatorsArePartsMinusOne
        /\ (Plain(built.command)
               /\ (TruthyStr(built.pre_cmd) => Plain(built.pre_cmd.s))) =>
              (~BeginsWithSep(built.out) /\ ~EndsWithSep(built.out))

\* workdir given as "", pre-command as None: the command alone comes out
C23_Witness ==
    /\ built.command = <<"ls">>
    /\ built.workdir = Some(<<>>)
    /\ built.pre_cmd = Absent
    /\ built.parts = <<(<<"ls">>)>>
    /\ built.out = <<"ls">>

\* the call ended by raising SSHError
RaisedSSHError == Returned /\ result.kind = "raise" /\ result.exc = "SSHError"

\* C24: run_interactive_shell called on a connected Session from a thread
\* other than the main thread, or where HAS_TTY is false, is over with
\* SSHError and has opened no channel, made no request on one, installed no
\* resize handler and neither read nor changed a terminal attribute.
C24_RefusedBeforeAnySetup ==
    (Interactive /\ clientObj /\ (~mainThread \/ ~HAS_TTY))
        => (RaisedSSHError /\ NothingStarted /\ chanCalls = <<>>)

C24_Witness ==
    /\ Interactive /\ clientObj /\ transport = "active"
    /\ HAS_TTY /\ ~mainThread
    /\ result = SSHError("must run in main thread")

\* the entry checks of run_interactive_shell let the call through
EntryPassed == Interactive /\ clientObj /\ HAS_TTY /\ mainThread

\* the call ended in _setup_channel: it raised with no terminal attributes
\* captured, and not from tcgetattr
SetupFailed ==
    /\ EntryPassed /\ Returned /\ result.kind = "raise"
    /\ old_tty_attrs = "none" /\ result.exc # "termios.error"

\* C25: when open_session, get_pty or exec_command fails in _setup_channel,
\* run_interactive_shell raises SSHError, and the local terminal attributes
\* and the SIGWINCH handler are those from before the call.
C25_SetupFailureIsSSHError ==
    SetupFailed =>
        /\ result.exc = "SSHError"
        /\ ttyMode = "cooked" /\ ~rawEntered
        /\ sigHandler = "prev" /\ old_handler = "none"

\* _setup_channel has returned the channel to run_interactive_shell
SetupDone == EntryPassed /\ pc = "tcgetattr"

\* C26: _setup_channel calls channel.get_pty once, with the columns and rows
\* os.get_terminal_size() returned, or 80 and 24 when it raised OSError, and
\* with the TERM of the environment, or "vt100" when TERM is not set; it calls
\* channel.exec_command once, and only after get_pty.
C26_OnePtyRequestThenOneDispatch ==
    /\ Len(chanCalls) <= 2
    /\ chanCalls # <<>> =>
         /\ chanCalls[1].call = "get_pty"
         /\ sizeQuery.kind = "size" =>
              chanCalls[1].width = sizeQuery.cols /\ chanCalls[1].height = sizeQuery.rows
         /\ sizeQuery.kind # "size" =>
              chanCalls[1].width = 80 /\ chanCalls[1].height = 24
         /\ chanCalls[1].term = IF TERM.present THEN TERM.s ELSE <<"vt100">>
    /\ Len(chanCalls) = 2 => chanCalls[2].call = "exec_command"
    /\ (Interactive /\ pc = "exec_command") => Len(chanCalls) = 1
    /\ SetupDone => Len(chanCalls) = 2

C26_Witness ==
    /\ SetupDone
    /\ sizeQuery = QueryFailed /\ TERM = Absent
    /\ chanCalls = <<[call |-> "get_pty", term |-> <<"vt100">>, width |-> 80, height |-> 24],
                     Dispatch>>

\* a step of _resize_handler
ResizeRun == resizes' = resizes + 1

\* C27: no run of _resize_handler lets an exception out, whether the size
\* query fails, resize_pty fails or the channel is not active: the thread of
\* control stays where it was and no outcome of the call is set.
C27_HandlerNeverPropagates ==
    [][ResizeRun => UNCHANGED <<pc, result, loopResult, cleanupCalls>>]_vars

C27_Witness ==
    /\ Interactive /\ resizes = 1 /\ resizeReqs = <<>>
    /\ loopExit = "remote_eof" /\ Returned /\ result.kind = "return"

\* C28: a SIGWINCH handled while the handler of the call is installed changes
\* nothing of the relay (position, ready set, chunk in hand, what was read,
\* written, flushed and sent, wait modes), of the channel, of the terminal or
\* of the outcome of the call; it makes no resize_pty call or one, with a size
\* os.get_terminal_size() reported.
C28_ResizeLeavesRelayAlone ==
    [][ResizeRun =>
         /\ UNCHANGED <<pc, relayVars, channel, termVars, armVars, cleanupVars,
                        loopResult, exitEvent, result>>
         /\ \/ resizeReqs' = resizeReqs
            \/ \E d \in LocalSizes : resizeReqs' = Append(resizeReqs, d)]_vars

C28_Witness ==
    /\ Interactive /\ resizes = 1 /\ resizeReqs \in {<<d>> : d \in LocalSizes}
    /\ pc = "write" /\ data # <<>>

\* every outcome the executors have when run step by step is among the
\* outcomes cli() is given for them
ExecutorResultsCovered ==
    /\ (EntryPassed /\ Returned) => result \in InteractiveRunResults
    /\ (Streaming /\ clientObj /\ Returned) => result \in StreamRunResults

\* how often cli() has made a call, and how often it has printed a line
NumCalls(c)  == Cardinality({i \in DOMAIN cliCalls : cliCalls[i] = c})
NumStderr(l) == Cardinality({i \in DOMAIN stderr : stderr[i] = l})
NumExecutors ==
    NumCalls("run_interactive_shell") + NumCalls("exec_command_stream(pty=False)")

\* cli() has just made its executor call (connect() had succeeded)
ExecutorCalled == cliPc \in {"except", "finally"} /\ op # "connect"

\* C29 as stated: an invocation whose connect() succeeded calls exactly one
\* executor, once: run_interactive_shell if and only if --tty is in force and
\* sys.stdout.isatty(), exec_command_stream with pty=False otherwise.
C29_ExecutorByTtyAndIsatty ==
    /\ NumExecutors <= 1
    /\ cliPc = "executor" => NumExecutors = 0
    /\ ExecutorCalled => NumExecutors = 1
    /\ NumCalls("run_interactive_shell") = 1 => (opts.tty /\ stdoutIsatty)
    /\ NumCalls("exec_command_stream(pty=False)") = 1 => ~(opts.tty /\ stdoutIsatty)

\* C29 amended: an invocation whose connect() succeeded calls exactly one
\* executor, once: run_interactive_shell if and only if --tty is in force,
\* sys.stdout.isatty() and rich.console can be imported, exec_command_stream
\* with pty=False otherwise.
C29_ExecutorByTtyIsattyAndRich ==
    /\ NumExecutors <= 1
    /\ cliPc = "executor" => NumExecutors = 0
    /\ ExecutorCalled => NumExecutors = 1
    /\ NumCalls("run_interactive_shell") = 1
           => (opts.tty /\ stdoutIsatty /\ ~richMissing)
    /\ NumCalls("exec_command_stream(pty=False)") = 1
           => ~(opts.tty /\ stdoutIsatty /\ ~richMissing)

C29_Witness ==
    /\ opts.tty /\ stdoutIsatty /\ richMissing
    /\ ExecutorCalled
    /\ cliCalls[Len(cliCalls)] = "exec_command_stream(pty=False)"

\* C30: when connect() or the executor has raised SSHError, cli() has printed
\* the "SSH Error" line once and asked for exit code 1 by the time it reaches
\* the finally clause, and the process ends with status 1, whatever exit
\* status the remote command had.
C30_SSHErrorGivesOneLineAndExitOne ==
    /\ (cliPc = "finally" /\ result.kind = "raise" /\ result.exc = "SSHError")
           => (pending = SystemExit(1) /\ NumStderr("SSH Error") = 1)
    /\ (cliPc = "done" /\ NumStderr("SSH Error") = 1)
           => (pending = SystemExit(1) /\ exitStatus.code = 1)
    /\ NumStderr("SSH Error") <= 1

C30_Witness ==
    /\ cliPc = "done"
    /\ NumCalls("exec_command_stream(pty=False)") = 1
    /\ stderr = <<"SSH Error">>
    /\ exitStatus = Exited(1)

\* the calls cli() makes on a syncer and on the Session
SyncCalls    == {"RsyncSyncer.sync", "SftpSyncer.sync"}
SessionCalls == {"SSHClientWrapper", "connect", "run_interactive_shell",
                 "exec_command_stream(pty=False)", "close"}
NumSyncs == NumCalls("RsyncSyncer.sync") + NumCalls("SftpSyncer.sync")

\* C31: in every run of cli() the sync step is over (sync() has returned, or
\* was skipped) before the Session is built, connected or given a command:
\* sync() is called at most once and before every call on the Session; once
\* sync() has failed with SyncError the process is over with exit code 1 and
\* no call on the Session has been or will be made.
C31_SyncBeforeSessionOrExitOne ==
    /\ NumSyncs <= 1
    /\ \A i \in DOMAIN cliCalls : \A j \in DOMAIN cliCalls :
         (cliCalls[i] \in SyncCalls /\ cliCalls[j] \in SessionCalls) => i < j
    /\ (\E j \in DOMAIN cliCalls : cliCalls[j] \in SessionCalls)
           => cliPc \notin {"start", "config", "sync"}
    /\ NumStderr("Sync Failed") = 1 =>
         /\ cliPc = "done" /\ exitStatus = Exited(1)
         /\ \A j \in DOMAIN cliCalls : cliCalls[j] \notin SessionCalls

C31_Witness ==
    /\ cliPc = "done" /\ exitStatus = Exited(1)
    /\ cliCalls = <<"RsyncSyncer.sync">>
    /\ stderr = <<"Sync Failed">>

\* C32: no step of exec_command_stream (the entry check, the dispatch, a line
\* read or yielded, the exit-status wait, a failure of any of them) changes
\* the Session's client handle or its transport; a generator abandoned after
\* any of these steps leaves them as they were before the call.
C32_StreamLeavesSessionAlone ==
    [][op' = "stream" => UNCHANGED <<clientObj, transport>>]_vars

C32_Witness ==
    /\ Streaming /\ Returned /\ result.kind = "return"
    /\ yielded # <<>> /\ transport = "active"

\* cli() is past its sync step in a run that has a command, a server with
\* host, user and remote_dir, and sync enabled
PastSyncStep ==
    /\ ~opts.init /\ opts.hasCommand /\ opts.sync
    /\ config.kind = "ok" /\ config.hostUser /\ config.remote_dir
    /\ cliPc \notin {"start", "config", "sync"}

\* C33: when the sync engine configured for the server is "sftp", cli() ends
\* the process with exit code 1 and the message "SFTP mode has been removed",
\* having called no sync(), built no Session, and run no command.
C33_SftpEngineRejected ==
    (PastSyncStep /\ config.engine = "sftp") =>
        /\ cliPc = "done" /\ exitStatus = Exited(1)
        /\ NumStderr("SFTP mode has been removed") = 1
        /\ cliCalls = <<>>

\* what the gate of check() does, seen on the last call: disabled means no
\* fetch; no cache file, a file that is not JSON, no cached time or a time
\* that does not parse mean a fetch; a cached time less than 24 hours back
\* means no fetch; and a call that does not fetch returns None
GateAsDocumented ==
    /\ disabled => fetchLog = <<>>
    /\ (lastCheck.ret # "none" /\ ~disabled
          /\ (lastCheck.found.file # "json" \/ lastCheck.found.last.kind # "time"))
           => lastCheck.fetched
    /\ (lastCheck.ret # "none" /\ lastCheck.found.file = "json"
          /\ lastCheck.found.last.kind = "time"
          /\ lastCheck.at < lastCheck.found.last.t + 24)
           => ~lastCheck.fetched
    /\ (lastCheck.ret # "none" /\ ~lastCheck.fetched) => lastCheck.ret = "None"

\* C34 as stated: every check() that fetches records its time, so any two
\* fetches are at least 24 hours apart; and the gate is as documented.
C34_OneFetchPerDay ==
    /\ \A i \in DOMAIN fetchLog : \A j \in DOMAIN fetchLog :
         i < j => fetchLog[j].t - fetchLog[i].t >= 24
    /\ GateAsDocumented

\* C34 amended: after a check() that fetched and whose cache write went
\* through, no later check() fetches within 24 hours; and the gate is as
\* documented.
C34_OneFetchPerDayOnceSaved ==
    /\ \A i \in DOMAIN fetchLog : \A j \in DOMAIN fetchLog :
         (i < j /\ fetchLog[i].saved) => fetchLog[j].t - fetchLog[i].t >= 24
    /\ GateAsDocumented

C34_Witness ==
    /\ Len(fetchLog) = 1 /\ fetchLog[1].saved
    /\ lastCheck.at > fetchLog[1].t /\ ~lastCheck.fetched /\ lastCheck.ret = "None"

\* C35: a zero-byte read from the channel or from standard input ends the
\* relay loop in that iteration, whatever read errors came before it, and
\* from there the call of run_interactive_shell gets back to its caller:
\* the status wait and the teardown steps all complete.
C35_EofLeadsToReturn ==
    /\ [](loopExit \in EofExits => pc \notin LoopPcs)
    /\ (Interactive /\ loopExit \in EofExits) ~> (Interactive /\ Returned)

C35_Witness ==
    /\ Interactive /\ Returned /\ loopExit \in EofExits
    /\ recvErrSeen /\ cleanupCalls = 1 /\ chanCloses = 1

\* without a zero-byte read nothing bounds the loop: this does not hold,
\* reads may fail one after the other for ever
LoopAlwaysEnds == (Interactive /\ pc = "select") ~> PastLoop

SnapshotTaken == old_tty_attrs # "none" /\ old_handler # "none"

\* the attributes are captured once, from the terminal as it is before the
\* handler is installed and before raw mode; the handler is captured once, by
\* the call that installs the new one, before raw mode; a restore in
\* teardown puts back the captured value or, failing, changes nothing
SnapshotSteps ==
    Interactive' =>
      /\ old_tty_attrs' # old_tty_attrs =>
            /\ old_tty_attrs = "none" /\ old_handler = "none"
            /\ sigHandler # "resize" /\ ~rawEntered
            /\ old_tty_attrs' = ttyMode /\ old_tty_attrs' # "raw"
      /\ old_handler' # old_handler =>
            /\ old_handler = "none" /\ old_tty_attrs # "none" /\ ~rawEntered
            /\ old_handler' = sigHandler /\ sigHandler' = "resize"
      /\ ttyRestores' # ttyRestores =>
            /\ SnapshotTaken
            /\ ttyMode' = old_tty_attrs \/ ttyMode' = ttyMode
      /\ sigRestores' # sigRestores =>
            /\ SnapshotTaken
            /\ sigHandler' = old_handler \/ sigHandler' = sigHandler
      /\ UNCHANGED <<old_tty_attrs, old_handler>> \/ pc \in {"tcgetattr", "install_handler"}

\* C36 as stated: every call of run_interactive_shell captures exactly one
\* Terminal Snapshot, before the handler is installed and before raw mode,
\* and teardown restores the attributes and the handler of that snapshot.
C36_OneSnapshotPerCall ==
    /\ []((Interactive /\ Returned) => SnapshotTaken)
    /\ [][SnapshotSteps]_vars

\* C36 amended: a call captures the snapshot at most once, and has captured
\* it (cooked attributes, previous handler) whenever it is in raw mode or in
\* teardown; the capture precedes the installation of the handler and raw
\* mode, and teardown restores the attributes and the handler of that
\* snapshot. A call that fails before the capture takes none.
C36_OneSnapshotPerArmedCall ==
    /\ []((Interactive /\ (rawEntered \/ cleanupCalls > 0)) =>
             (SnapshotTaken /\ old_tty_attrs # "raw"))
    /\ [][SnapshotSteps]_vars

C36_Witness ==
    /\ Interactive /\ Returned /\ rawEntered
    /\ old_tty_attrs = "cooked" /\ old_handler = "prev"
    /\ ttyRestores = 1 /\ sigRestores = 1
    /\ ttyMode = "cooked" /\ sigHandler = "prev"

\* a resize request goes out only through the installed handler of this call,
\* on a channel that is open then (not closed by teardown); the channel is
\* closed only after the attempt to reinstall the previous handler, which is
\* back in place unless that attempt failed
ResizeSteps ==
    /\ Len(resizeReqs') > Len(resizeReqs) =>
          /\ channel = "open" /\ channel' = "open"
          /\ sigHandler = "resize"
    /\ chanCloses' > chanCloses =>
          /\ sigRestores' >= 1
          /\ "signal" \notin cleanupFailed' => sigHandler' = old_handler

C37_LateSignal ==
    /\ Interactive /\ Returned /\ channel = "closed" /\ "signal" \in cleanupFailed
    /\ sigHandler = "resize" /\ resizes = 1 /\ resizeReqs = <<>>

\* C38: in an iteration the channel branch is over before standard input is
\* read; after a zero-byte channel read the loop is left at once, standard
\* input is not read again, and every chunk that was read from it had been
\* handed to channel.send before: none is dropped because of the remote EOF.
C38_RemoteEofReadsNoInput ==
    Interactive =>
      /\ pc = "read" => (r = {"stdin"} /\ loopExit = "none")
      /\ pc \in {"recv", "write", "flush"} => "channel" \in r
      /\ pc = "send" => loopExit = "none"
      /\ loopExit = "remote_eof" => (pc \notin LoopPcs /\ sendCalls = stdinLog)

C38_Witness ==
    /\ Interactive /\ Returned /\ loopExit = "remote_eof"
    /\ Len(stdinLog) = 1 /\ sendCalls = stdinLog /\ Len(recvLog) = 1

\* C39: when the executor cli() called returns a status, sys.exit is called
\* with exactly that status, the sentinel -1 included, in either mode; and
\* the process ends with the status asked for unless close() raises.
C39_ExitCodeIsExecutorStatus ==
    /\ (ExecutorCalled /\ result.kind = "return") =>
          (cliPc = "finally" /\ pending = SystemExit(result.code))
    /\ (cliPc = "done" /\ pending.kind = "SystemExit" /\ exitStatus # Crashed) =>
          exitStatus = Exited(pending.code)

C39_Witness ==
    /\ cliPc = "done" /\ NumCalls("run_interactive_shell") = 1
    /\ pending = SystemExit(EXIT_SENTINEL) /\ exitStatus = Exited(EXIT_SENTINEL)

\* the same for the largest remote status in streaming mode
C39_StreamStatus ==
    /\ cliPc = "done" /\ NumCalls("exec_command_stream(pty=False)") = 1
    /\ pending = SystemExit(MaxExit) /\ exitStatus = Exited(MaxExit)

\* C40: close() is called on the Session at most once, only after the
\* Session was built and as the last call of the run; every run that built
\* the Session has called it exactly once when it is over, whichever way the
\* execution step was left. With --dry-run no Session is built and none of
\* sync(), connect(), an executor or close() is called.
C40_CloseExactlyOnce ==
    /\ NumCalls("close") <= 1 /\ NumCalls("SSHClientWrapper") <= 1
    /\ NumCalls("close") = 1 =>
          (cliPc = "done" /\ cliCalls[Len(cliCalls)] = "close"
             /\ NumCalls("SSHClientWrapper") = 1)
    /\ (cliPc = "done" /\ NumCalls("SSHClientWrapper") = 1) => NumCalls("close") = 1
    /\ opts.dry_run =>
          \A i \in DOMAIN cliCalls : cliCalls[i] \notin SyncCalls \cup SessionCalls

\* the four ways out of the execution step, each with its one close()
ClosedAfterConnectFailure ==
    /\ cliPc = "done" /\ cliCalls = <<"SSHClientWrapper", "connect", "close">>
    /\ NumStderr("SSH Error") = 1
ClosedAfterExecutorSSHError ==
    /\ cliPc = "done" /\ NumExecutors = 1 /\ NumStderr("SSH Error") = 1
    /\ NumCalls("close") = 1
ClosedAfterRemoteStatus(call) ==
    /\ cliPc = "done" /\ NumCalls(call) = 1 /\ pending = SystemExit(MaxExit)
    /\ stderr = <<>> /\ NumCalls("close") = 1
ClosedAfterOtherException ==
    /\ cliPc = "done" /\ NumExecutors = 1 /\ pending.kind = "exception"
    /\ NumCalls("close") = 1

C40_Witness == ClosedAfterOtherException

C40_WitnessConnect == ClosedAfterConnectFailure
C40_WitnessSSHError == ClosedAfterExecutorSSHError
C40_WitnessInteractive == ClosedAfterRemoteStatus("run_interactive_shell")
C40_WitnessStream == ClosedAfterRemoteStatus("exec_command_stream(pty=False)")
C40_WitnessDryRun == cliPc = "done" /\ opts.dry_run /\ opts.sync /\ exitStatus = Exited(0)

====
